---- MODULE Spec2Model ----
(***************************************************************************)
(* Query-construction and denormalisation layer of the Pokemon MCP server. *)
(*                                                                         *)
(* The store is the SQLite database written by the ingestion service and   *)
(* only read here.  Text values on which the code or the SQL works         *)
(* character by character (identifiers, entity names, type names) are      *)
(* sequences of one-character strings; attribute names, which are only     *)
(* compared and sorted, are plain strings.                                 *)
(***************************************************************************)
EXTENDS Integers, Sequences, FiniteSets, TLC

VARIABLES db, statements, call, rows, result, compiled,
          clock, lastRequestTime, requestCount, config, fetchers, sent

\* The query layer of the server, and the client of the remote source that
\* the ingestion runs.
server == <<db, statements, call, rows, result, compiled>>
client == <<clock, lastRequestTime, requestCount, config, fetchers, sent>>

vars == <<db, statements, call, rows, result, compiled,
          clock, lastRequestTime, requestCount, config, fetchers, sent>>

(***************************************************************************)
(* Bounds of the model.                                                    *)
(***************************************************************************)
MaxGen == 2         \* generations 1..MaxGen
MaxStat == 2        \* base_stat values 1..MaxStat in the search stores
MaxLimit == 2       \* explicit limits 1..MaxLimit
MaxIdentLen == 2    \* identifier strings of at most this many characters
MaxRel == 2         \* at most this many attributes / tags / traits per entity
MaxPermRows == 4    \* row sets up to this size are tried in every order
MaxStatRows == 6    \* ingestion stops before the stats table has more rows
MaxEntities == 21   \* entities of the large store: more than either default limit
MaxRetries == 2     \* retry counts 0..MaxRetries
MaxSent == 3        \* requests sent to the remote source in one run
MaxTicks == 5       \* the clock advances this many times
NumCallers == 2     \* parallel fetches of one batch
Tick == 500         \* milliseconds the clock advances at a time

PokemonIds == {1, 2}

(***************************************************************************)
(* Text.                                                                   *)
(***************************************************************************)
Digits == {"0", "1", "2", "3", "4", "5", "6", "7", "8", "9"}

DigitValue ==
    [c \in Digits |->
        CASE c = "0" -> 0 [] c = "1" -> 1 [] c = "2" -> 2 [] c = "3" -> 3
          [] c = "4" -> 4 [] c = "5" -> 5 [] c = "6" -> 6 [] c = "7" -> 7
          [] c = "8" -> 8 [] c = "9" -> 9]

UpperCase == {"A", "B", "D", "F", "G", "X"}

\* SQLite LOWER(): ASCII upper-case letters are folded, everything else kept.
LowerChar(c) ==
    CASE c = "A" -> "a" [] c = "B" -> "b" [] c = "D" -> "d"
      [] c = "F" -> "f" [] c = "G" -> "g" [] c = "X" -> "x" [] OTHER -> c

LOWER(s) == [i \in 1..Len(s) |-> LowerChar(s[i])]

\* /^\d+$/.test(identifier)
isNumericId(identifier) ==
    /\ Len(identifier) > 0
    /\ \A i \in 1..Len(identifier) : identifier[i] \in Digits

RECURSIVE DecimalValue(_)
DecimalValue(s) ==
    IF Len(s) = 0 THEN 0
    ELSE 10 * DecimalValue(SubSeq(s, 1, Len(s) - 1)) + DigitValue[s[Len(s)]]

\* parseInt on a string of decimal digits (its only use in getPokemon).
parseInt(s) == DecimalValue(s)

\* String(n) for a non-negative integer.
RECURSIVE DecimalString(_)
DecimalString(n) ==
    LET d == CHOOSE c \in Digits : DigitValue[c] = n % 10
    IN  IF n < 10 THEN <<d>> ELSE Append(DecimalString(n \div 10), d)

(***************************************************************************)
(* SQL values.  NULL and the JavaScript undefined are sentinels of the     *)
(* type of the column they stand in.                                       *)
(***************************************************************************)
NullInt == -1
UndefinedInt == -2
NullName == "NULL"
NullText == <<"NULL">>
UndefinedText == <<"undefined">>

\* JavaScript truthiness of a nullable string column.
TruthyName(s) == s # NullName /\ s # ""
\* Faulty variant: only undefined is refused, null passes.
TruthyText_NullPasses(s) == s # UndefinedText

TruthyText(s) == s \notin {NullText, UndefinedText, <<>>}

\* JavaScript truthiness of a number.
TruthyInt(n) == n \notin {NullInt, UndefinedInt, 0}

\* A value bound to a statement or held by a column, with its storage class.
Text(s) == [type |-> "text", value |-> s]
Integer(n) == [type |-> "integer", value |-> n]

\* `p.id = ?` with the parameter bound as text: the INTEGER affinity of the
\* column converts a text that is a well-formed integer literal (optional
\* sign, decimal digits) to that integer; any other text equals no id.
SignedDigits(s) ==
    IF Len(s) > 0 /\ s[1] \in {"+", "-"} THEN SubSeq(s, 2, Len(s)) ELSE s

IdEqualsText(id, s) ==
    /\ isNumericId(SignedDigits(s))
    /\ id = (IF s[1] = "-" THEN 0 - DecimalValue(SignedDigits(s))
                           ELSE DecimalValue(SignedDigits(s)))

(***************************************************************************)
(* The store: the tables of the schema that this layer reads.  The joins   *)
(* pokemon_types |><| types and pokemon_abilities |><| abilities are kept  *)
(* joined (every type_id / ability_id has its row in types / abilities).   *)
(* The scalar columns height, weight, base_experience, species_url and     *)
(* sprite_url are copied through like generation and are left out.         *)
(***************************************************************************)
statOrder == <<"hp", "attack", "defense", "special-attack", "special-defense", "speed">>

CanonicalNames == {statOrder[i] : i \in 1..Len(statOrder)}

\* Attribute names of the stores, in the order of the BINARY collation.
StatCollation ==
    <<"accuracy", "attack", "defense", "hp", "special-attack", "special-defense", "speed">>

StatUniverse == {StatCollation[i] : i \in 1..Len(StatCollation)}

CollationRank(n) ==
    IF n = NullName THEN 0
    ELSE CHOOSE i \in 1..Len(StatCollation) : StatCollation[i] = n

PokemonNames == {<<"a">>, <<"A">>, <<"b">>, <<"2">>}
TypeNames == {<<"g">>, <<"G">>, <<"f">>}
AbilityNames == {<<"x">>, <<"y">>, <<"z">>}

EmptyStore ==
    [pokemon |-> {}, stats |-> {}, pokemon_types |-> {}, pokemon_abilities |-> {}]

\* stats.id INTEGER PRIMARY KEY AUTOINCREMENT: some number no other row of
\* the table has.
StatRowId(i, s) == (i * 10 + CollationRank(s.stat_name)) * 100 + s.base_stat

\* A store from a function id -> [name, generation, stats, types, abilities].
MkStore(f) ==
    [pokemon |->
        {[id |-> i, name |-> f[i].name, generation |-> f[i].generation] : i \in DOMAIN f},
     stats |->
        UNION {{[id |-> StatRowId(i, s), pokemon_id |-> i, stat_name |-> s.stat_name,
                 base_stat |-> s.base_stat, effort |-> s.effort] : s \in f[i].stats}
               : i \in DOMAIN f},
     pokemon_types |->
        UNION {{[pokemon_id |-> i, name |-> t.name, slot |-> t.slot] : t \in f[i].types}
               : i \in DOMAIN f},
     pokemon_abilities |->
        UNION {{[pokemon_id |-> i, name |-> a.name, is_hidden |-> a.is_hidden,
                 slot |-> a.slot] : a \in f[i].abilities}
               : i \in DOMAIN f}]

StoresOf(Profiles) ==
    UNION {{MkStore(f) : f \in [S -> Profiles]} : S \in SUBSET PokemonIds}

Stat(n, v) == [stat_name |-> n, base_stat |-> v, effort |-> 0]
Tag(n, k) == [name |-> n, slot |-> k]
Trait(n, h, k) == [name |-> n, is_hidden |-> h, slot |-> k]

\* Stores that differ in who is called what: any name on any id.
IdentityProfiles ==
    {[name |-> n, generation |-> 1, stats |-> {Stat("hp", 1)},
      types |-> {Tag(<<"g">>, 1)}, abilities |-> {Trait(<<"x">>, 0, 1)}]
     : n \in PokemonNames}

IdentityStores == StoresOf(IdentityProfiles)

\* Stores that differ in what search and ranking look at: generation, tags
\* and attribute totals of entity 1, next to an optional fixed entity 2.
SearchTagSets ==
    {{}, {Tag(<<"g">>, 1)}, {Tag(<<"G">>, 1)}, {Tag(<<"f">>, 1)},
     {Tag(<<"g">>, 1), Tag(<<"f">>, 2)}}

SearchStatSets ==
    {{}} \cup {{Stat("hp", v)} : v \in 1..MaxStat}
         \cup {{Stat("hp", MaxStat), Stat("attack", w)} : w \in 1..MaxStat}

SearchProfiles1 ==
    {[name |-> <<"a">>, generation |-> g, stats |-> ss, types |-> ts, abilities |-> {}]
     : g \in 1..MaxGen, ss \in SearchStatSets, ts \in SearchTagSets}

SearchProfile2 ==
    [name |-> <<"b">>, generation |-> MaxGen, stats |-> {Stat("hp", MaxStat)},
     types |-> {Tag(<<"f">>, 1)}, abilities |-> {}]

SearchStores ==
    {MkStore((1 :> p)) : p \in SearchProfiles1}
      \cup {MkStore((1 :> p) @@ (2 :> SearchProfile2)) : p \in SearchProfiles1}

Stores == IdentityStores \cup SearchStores

\* A store with more entities than the default limits of search (20) and
\* ranking (10): every entity tagged, totals 2, 3, 4 in turn.
LargeStore ==
    MkStore([i \in 1..MaxEntities |->
                [name |-> <<"b">>, generation |-> 1,
                 stats |-> {Stat("hp", 1 + (i % 3)), Stat("attack", 1)},
                 types |-> {Tag(<<"g">>, 1)}, abilities |-> {}]])

\* types.name is UNIQUE under the BINARY collation: two types whose names
\* differ in case only are two types, and entity 1 has both.
CaseTwinStore ==
    MkStore((1 :> [name |-> <<"a">>, generation |-> 1,
                   stats |-> {Stat("hp", 1), Stat("attack", 2)},
                   types |-> {Tag(<<"g">>, 1), Tag(<<"G">>, 2)}, abilities |-> {}])
            @@ (2 :> SearchProfile2))

\* types.name is any text: a name with a comma inside, one with a blank in
\* front, the empty name.
PunctuatedTagSets ==
    {{Tag(<<"g", ",", "f">>, 1), Tag(<<"G">>, 2)},
     {Tag(<<" ", "g">>, 1), Tag(<<"G">>, 2)},
     {Tag(<<"g", " ", "f">>, 1), Tag(<<"G">>, 2)},
     {Tag(<<>>, 1), Tag(<<"G">>, 2)},
     {Tag(<<>>, 1)}}

PunctuatedStores ==
    {MkStore((1 :> [name |-> <<"a">>, generation |-> 1, stats |-> {Stat("hp", 1)},
                    types |-> ts, abilities |-> {}]))
     : ts \in PunctuatedTagSets}

\* Stores that differ in the shape of entity 1's three relations: S
\* attributes, T tags and A traits, the slots ascending with the names,
\* descending, or all equal.
StatByIndex == <<"speed", "attack", "hp">>
TagByIndex == <<<<"g">>, <<"f">>, <<"G">>>>
TraitByIndex == <<<<"x">>, <<"y">>, <<"z">>>>

SlotVariants == {"asc", "desc", "same"}

SlotFor(variant, i, n) ==
    CASE variant = "asc" -> i
      [] variant = "desc" -> n + 1 - i
      [] OTHER -> 1

FanStatSets == {{Stat(StatByIndex[i], i) : i \in 1..S} : S \in 0..MaxRel}

FanTagSets ==
    {{Tag(TagByIndex[i], SlotFor(v, i, T)) : i \in 1..T} : T \in 0..MaxRel, v \in SlotVariants}

FanTraitSets ==
    {{Trait(TraitByIndex[i], IF i = 1 THEN 0 ELSE 1, SlotFor(v, i, A)) : i \in 1..A}
     : A \in 0..MaxRel, v \in SlotVariants}

FanoutStores ==
    {MkStore((1 :> [name |-> <<"a">>, generation |-> 1, stats |-> ss,
                    types |-> ts, abilities |-> as]))
     : ss \in FanStatSets, ts \in FanTagSets, as \in FanTraitSets}

\* Stores whose entity 1 has any set of attribute names and nothing else.
CanonicalStores ==
    {MkStore((1 :> [name |-> <<"a">>, generation |-> 1,
                    stats |-> {Stat(n, CollationRank(n)) : n \in N},
                    types |-> {}, abilities |-> {}]))
     : N \in SUBSET StatUniverse}

\* The worked example: 6 attributes, 2 tags, 2 traits.
ExampleStore ==
    MkStore((1 :> [name |-> <<"b">>, generation |-> 1,
                   stats |-> {Stat("hp", 45), Stat("attack", 49), Stat("defense", 49),
                              [stat_name |-> "special-attack", base_stat |-> 65, effort |-> 1],
                              Stat("special-defense", 65), Stat("speed", 45)},
                   types |-> {Tag(<<"g">>, 1), Tag(<<"f">>, 2)},
                   abilities |-> {Trait(<<"x">>, 0, 1), Trait(<<"y">>, 1, 2)}]))

\* The stores of search and ranking.
PagedStores == SearchStores \cup {LargeStore, ExampleStore}

ReconstructionStores == FanoutStores \cup CanonicalStores \cup {ExampleStore}

(***************************************************************************)
(* PokemonDataIngestion.ingestPokemonBatch: the transaction that writes    *)
(* the fetched entities.  A fetched entity holds its attributes, tags and  *)
(* traits as arrays; a tag and a trait are keyed by their name, which      *)
(* stands for the id of the types and abilities tables.                    *)
(***************************************************************************)
\* value ?? default
Coalesce(v, default) == IF v \in {NullInt, UndefinedInt} THEN default ELSE v

\* INSERT OR REPLACE INTO pokemon: id is the primary key.
insertPokemon(d, pokemon) ==
    [d EXCEPT !.pokemon =
        {p \in @ : p.id # pokemon.id}
          \cup {[id |-> pokemon.id, name |-> pokemon.name,
                 generation |-> Coalesce(pokemon.generation, 1)]}]

\* AUTOINCREMENT: one more than the largest rowid of the table.
NextStatId(d) ==
    IF d.stats = {} THEN 1
    ELSE 1 + (CHOOSE n \in {s.id : s \in d.stats} : \A s \in d.stats : s.id <= n)

\* INSERT OR REPLACE INTO stats (pokemon_id, stat_name, base_stat, effort):
\* the only key of the table is the rowid, which the statement leaves to
\* the engine.
insertStat(d, pokemonId, stat) ==
    [d EXCEPT !.stats =
        @ \cup {[id |-> NextStatId(d), pokemon_id |-> pokemonId,
                 stat_name |-> stat.stat_name,
                 base_stat |-> Coalesce(stat.base_stat, 0),
                 effort |-> Coalesce(stat.effort, 0)]}]

\* INSERT OR REPLACE INTO pokemon_types: PRIMARY KEY (pokemon_id, type_id).
insertPokemonType(d, pokemonId, type) ==
    [d EXCEPT !.pokemon_types =
        {t \in @ : ~(t.pokemon_id = pokemonId /\ t.name = type.name)}
          \cup {[pokemon_id |-> pokemonId, name |-> type.name,
                 slot |-> Coalesce(type.slot, 1)]}]

\* INSERT OR REPLACE INTO pokemon_abilities: PRIMARY KEY (pokemon_id, ability_id).
insertPokemonAbility(d, pokemonId, ability) ==
    [d EXCEPT !.pokemon_abilities =
        {a \in @ : ~(a.pokemon_id = pokemonId /\ a.name = ability.name)}
          \cup {[pokemon_id |-> pokemonId, name |-> ability.name,
                 is_hidden |-> IF ability.is_hidden THEN 1 ELSE 0,
                 slot |-> Coalesce(ability.slot, 1)]}]

RECURSIVE insertStats(_, _, _)
insertStats(d, pokemonId, stats) ==
    IF Len(stats) = 0 THEN d
    ELSE insertStats(insertStat(d, pokemonId, stats[1]), pokemonId, Tail(stats))

RECURSIVE insertTypes(_, _, _)
insertTypes(d, pokemonId, types) ==
    IF Len(types) = 0 THEN d
    ELSE insertTypes(insertPokemonType(d, pokemonId, types[1]), pokemonId, Tail(types))

RECURSIVE insertAbilities(_, _, _)
insertAbilities(d, pokemonId, abilities) ==
    IF Len(abilities) = 0 THEN d
    ELSE insertAbilities(insertPokemonAbility(d, pokemonId, abilities[1]),
                         pokemonId, Tail(abilities))

\* The body of the loop over validResults.
ingestPokemon(d, pokemon) ==
    insertAbilities(
        insertTypes(insertStats(insertPokemon(d, pokemon), pokemon.id, pokemon.stats),
                    pokemon.id, pokemon.types),
        pokemon.id, pokemon.abilities)

\* The transaction over validResults.
RECURSIVE ingestPokemonBatch(_, _)
ingestPokemonBatch(d, validResults) ==
    IF Len(validResults) = 0 THEN d
    ELSE ingestPokemonBatch(ingestPokemon(d, validResults[1]), Tail(validResults))

(***************************************************************************)
(* PokemonQueries.                                                         *)
(***************************************************************************)
Undefined == [kind |-> "undefined"]
RowResult(r) == [kind |-> "row", row |-> r]

\* statement.get(): the first row of the scan (ascending rowid) or undefined.
FirstById(S) ==
    IF S = {} THEN Undefined
    ELSE RowResult(CHOOSE p \in S : \A q \in S : p.id <= q.id)

\* SELECT * FROM pokemon WHERE id = ?
getPokemonById(d, id) == FirstById({p \in d.pokemon : p.id = id})

\* Faulty variant: the name compared as stored, without case folding.
getPokemonByName_CaseSensitive(d, name) == FirstById({p \in d.pokemon : p.name = name})

\* SELECT * FROM pokemon WHERE LOWER(name) = LOWER(?)
getPokemonByName(d, name) == FirstById({p \in d.pokemon : LOWER(p.name) = LOWER(name)})

getPokemon(d, identifier) ==
    IF isNumericId(identifier)
    THEN getPokemonById(d, parseInt(identifier))
    ELSE getPokemonByName(d, identifier)

\* The three LEFT JOINs of pokemonComplete for one row of pokemon.
NullStat ==
    [id |-> NullInt, stat_name |-> NullName, base_stat |-> NullInt, effort |-> NullInt]

\* The rows of stats of one entity, each with its rowid: two rows may agree
\* in every column but the rowid.
StatRowsOf(d, id) ==
    {[id |-> s.id, stat_name |-> s.stat_name, base_stat |-> s.base_stat, effort |-> s.effort]
     : s \in {x \in d.stats : x.pokemon_id = id}}
NullTag == [name |-> NullText, slot |-> NullInt]
NullTrait == [name |-> NullText, is_hidden |-> NullInt, slot |-> NullInt]

StatsOf(d, id) ==
    {[stat_name |-> s.stat_name, base_stat |-> s.base_stat, effort |-> s.effort]
     : s \in {x \in d.stats : x.pokemon_id = id}}

TagsOf(d, id) ==
    {[name |-> t.name, slot |-> t.slot] : t \in {x \in d.pokemon_types : x.pokemon_id = id}}

TraitsOf(d, id) ==
    {[name |-> a.name, is_hidden |-> a.is_hidden, slot |-> a.slot]
     : a \in {x \in d.pokemon_abilities : x.pokemon_id = id}}

LeftJoin(S, nullRow) == IF S = {} THEN {nullRow} ELSE S

CompleteRowsOf(d, p) ==
    {[id |-> p.id, name |-> p.name, generation |-> p.generation,
      stat_id |-> s.id,
      stat_name |-> s.stat_name, base_stat |-> s.base_stat, effort |-> s.effort,
      type_name |-> t.name, type_slot |-> t.slot,
      ability_name |-> a.name, is_hidden |-> a.is_hidden, ability_slot |-> a.slot]
     : s \in LeftJoin(StatRowsOf(d, p.id), NullStat),
       t \in LeftJoin(TagsOf(d, p.id), NullTag),
       a \in LeftJoin(TraitsOf(d, p.id), NullTrait)}

\* WHERE p.id = ? OR LOWER(p.name) = LOWER(?), both bound to the identifier.
CompleteWhere(p, identifier) ==
    IdEqualsText(p.id, identifier) \/ LOWER(p.name) = LOWER(identifier)

\* ORDER BY s.stat_name, pt.slot, pa.slot (NULL first); rows equal in the
\* three keys come in an order the engine chooses.
CompleteOrderLE(r, q) ==
    \/ CollationRank(r.stat_name) < CollationRank(q.stat_name)
    \/ /\ r.stat_name = q.stat_name
       /\ \/ r.type_slot < q.type_slot
          \/ r.type_slot = q.type_slot /\ r.ability_slot <= q.ability_slot

RECURSIVE OrderBy(_)
OrderBy(S) ==
    IF S = {} THEN <<>>
    ELSE LET first == CHOOSE r \in S : \A q \in S : CompleteOrderLE(r, q)
         IN  <<first>> \o OrderBy(S \ {first})

getPokemonComplete(d, identifier) ==
    OrderBy(UNION {CompleteRowsOf(d, p) : p \in {q \in d.pokemon : CompleteWhere(q, identifier)}})

(***************************************************************************)
(* PokemonDataExtractor.  A Map is the sequence of its entries in          *)
(* insertion order.                                                        *)
(***************************************************************************)

extractPokemon(rs) ==
    IF Len(rs) = 0 THEN [kind |-> "error", message |-> "No rows provided"]
    ELSE [kind |-> "row",
          row |-> [id |-> rs[1].id, name |-> rs[1].name, generation |-> rs[1].generation]]

\* Map.prototype.has for a Map keyed by stat_name, and for one keyed by slot.
statsMapHas(map, k) == \E i \in 1..Len(map) : map[i].stat_name = k
slotMapHas(map, k) == \E i \in 1..Len(map) : map[i].slot = k

RECURSIVE statsMapOf(_)
statsMapOf(rs) ==
    IF Len(rs) = 0 THEN <<>>
    ELSE LET map == statsMapOf(SubSeq(rs, 1, Len(rs) - 1))
             row == rs[Len(rs)]
         IN  IF /\ TruthyName(row.stat_name)
                /\ row.base_stat # UndefinedInt
                /\ row.effort # UndefinedInt
                /\ ~statsMapHas(map, row.stat_name)
             THEN Append(map, [stat_name |-> row.stat_name,
                               base_stat |-> row.base_stat, effort |-> row.effort])
             ELSE map

\* statOrder.map((name) => statsMap.get(name)).filter(defined)
RECURSIVE InStatOrder(_, _)
InStatOrder(map, i) ==
    IF i > Len(statOrder) THEN <<>>
    ELSE SelectSeq(map, LAMBDA e : e.stat_name = statOrder[i]) \o InStatOrder(map, i + 1)

\* Faulty variant: the attributes in the order the Map received them.
extractStats_InsertionOrder(rs) ==
    SelectSeq(statsMapOf(rs), LAMBDA e : e.stat_name \in CanonicalNames)

extractStats(rs) == InStatOrder(statsMapOf(rs), 1)

\* (a.slot || 0)
SlotOrZero(k) == IF k \in {NullInt, UndefinedInt} THEN 0 ELSE k

\* Array.prototype.sort with (a, b) => (a.slot || 0) - (b.slot || 0): stable.
RECURSIVE InsertBySlot(_, _)
InsertBySlot(sorted, e) ==
    IF Len(sorted) = 0 THEN <<e>>
    ELSE IF SlotOrZero(sorted[Len(sorted)].slot) <= SlotOrZero(e.slot)
         THEN Append(sorted, e)
         ELSE Append(InsertBySlot(SubSeq(sorted, 1, Len(sorted) - 1), e), sorted[Len(sorted)])

RECURSIVE SortBySlot(_)
SortBySlot(s) ==
    IF Len(s) = 0 THEN <<>>
    ELSE InsertBySlot(SortBySlot(SubSeq(s, 1, Len(s) - 1)), s[Len(s)])

RECURSIVE typesMapOf(_)
typesMapOf(rs) ==
    IF Len(rs) = 0 THEN <<>>
    ELSE LET map == typesMapOf(SubSeq(rs, 1, Len(rs) - 1))
             row == rs[Len(rs)]
         IN  IF /\ TruthyText(row.type_name)
                /\ row.type_slot # UndefinedInt
                /\ ~slotMapHas(map, row.type_slot)
             THEN Append(map, [name |-> row.type_name, slot |-> row.type_slot])
             ELSE map

\* Faulty variant: every row's tag kept, the rows not deduplicated by slot.
extractTypes_NoDedup(rs) ==
    LET tagged == SelectSeq(rs, LAMBDA row : /\ TruthyText(row.type_name)
                                             /\ row.type_slot # UndefinedInt)
    IN  SortBySlot([i \in 1..Len(tagged) |->
                       [name |-> tagged[i].type_name, slot |-> tagged[i].type_slot]])

extractTypes(rs) == SortBySlot(typesMapOf(rs))

\* Boolean(row.is_hidden)
ToBoolean(v) == v \notin {0, NullInt, UndefinedInt}

RECURSIVE abilitiesMapOf(_)
abilitiesMapOf(rs) ==
    IF Len(rs) = 0 THEN <<>>
    ELSE LET map == abilitiesMapOf(SubSeq(rs, 1, Len(rs) - 1))
             row == rs[Len(rs)]
         IN  IF /\ TruthyText(row.ability_name)
                /\ row.ability_slot # UndefinedInt
                /\ ~slotMapHas(map, row.ability_slot)
             THEN Append(map, [name |-> row.ability_name,
                               is_hidden |-> ToBoolean(row.is_hidden),
                               slot |-> row.ability_slot])
             ELSE map

extractAbilities(rs) == SortBySlot(abilitiesMapOf(rs))

(***************************************************************************)
(* SearchQueries.  The SQL text is the sequence of the fragments the       *)
(* builder concatenates; a fragment of Placeholder holds one `?`.          *)
(***************************************************************************)
DefaultSearchLimit == 20

SelectSearch ==
    "SELECT p.id, p.name, p.generation, GROUP_CONCAT(t.name) as types FROM pokemon p JOIN pokemon_types pt ON p.id = pt.pokemon_id JOIN types t ON pt.type_id = t.id"
ExistsType ==
    "EXISTS (SELECT 1 FROM pokemon_types pt2 JOIN types t2 ON pt2.type_id = t2.id WHERE pt2.pokemon_id = p.id AND LOWER(t2.name) = LOWER(?))"
GenerationEq == "p.generation = ?"
JoinStatTotals ==
    "JOIN (SELECT pokemon_id, SUM(base_stat) as total_stats FROM stats GROUP BY pokemon_id HAVING total_stats >= ?) stat_totals ON p.id = stat_totals.pokemon_id"
GroupOrderLimit == "GROUP BY p.id, p.name, p.generation ORDER BY p.id LIMIT ?"

Placeholder == {ExistsType, GenerationEq, JoinStatTotals, GroupOrderLimit}

\* conditions.join(' AND ')
RECURSIVE JoinAnd(_)
JoinAnd(conditions) ==
    IF Len(conditions) <= 1 THEN conditions
    ELSE <<conditions[1], "AND">> \o JoinAnd(Tail(conditions))

WhereClause(conditions) ==
    IF Len(conditions) > 0 THEN <<"WHERE">> \o JoinAnd(conditions) ELSE <<>>

buildSearchQuery(filter) ==
    LET conditions ==
            (IF TruthyText(filter.type) THEN <<ExistsType>> ELSE <<>>)
              \o (IF TruthyInt(filter.generation) THEN <<GenerationEq>> ELSE <<>>)
        query == <<SelectSearch>>
                   \o (IF TruthyInt(filter.minStat) THEN <<JoinStatTotals>> ELSE <<>>)
    IN  query \o WhereClause(conditions) \o <<GroupOrderLimit>>

\* Faulty variant: an absent limit passed on as it is.
LimitOrDefault_NoDefault(limit, default) == limit

\* const { limit = 20 } = filter
LimitOrDefault(limit, default) == IF limit = UndefinedInt THEN default ELSE limit

buildSearchParams(filter) ==
    (IF TruthyText(filter.type) THEN <<Text(filter.type)>> ELSE <<>>)
      \o (IF TruthyInt(filter.generation) THEN <<Integer(filter.generation)>> ELSE <<>>)
      \o (IF TruthyInt(filter.minStat) THEN <<Integer(filter.minStat)>> ELSE <<>>)
      \o <<Integer(LimitOrDefault(filter.limit, DefaultSearchLimit))>>

\* The placeholders of a text in text order, each named by its fragment.
Placeholders(query) == SelectSeq(query, LAMBDA fragment : fragment \in Placeholder)

\* The value the engine binds to the `?` of a fragment: the k-th parameter
\* to the k-th placeholder.
BoundTo(query, params, fragment) ==
    params[CHOOSE k \in 1..Len(Placeholders(query)) : Placeholders(query)[k] = fragment]

Contains(query, fragment) == \E i \in 1..Len(query) : query[i] = fragment

\* SQLite comparisons of an integer expression with a bound value.
\* An integer is less than any text (no affinity on either side).
IntegerGE(n, v) == v.type = "integer" /\ n >= v.value

\* `column = ?` for a column of INTEGER affinity.
IntegerColumnEq(n, v) ==
    IF v.type = "integer" THEN n = v.value ELSE IdEqualsText(n, v.value)

\* LOWER(?) of a bound value: an integer is first rendered as text.
LowerOf(v) == IF v.type = "integer" THEN DecimalString(v.value) ELSE LOWER(v.value)

RECURSIVE SumBaseStat(_)
SumBaseStat(S) ==
    IF S = {} THEN 0
    ELSE LET s == CHOOSE x \in S : TRUE
         IN  s.base_stat + SumBaseStat(S \ {s})

\* The rows of (SELECT pokemon_id, SUM(base_stat) ... HAVING total_stats >= ?).
StatTotalsHaving(d, v) ==
    {id \in {s.pokemon_id : s \in d.stats} :
        IntegerGE(SumBaseStat({s \in d.stats : s.pokemon_id = id}), v)}

\* Faulty variant: the stored tag name compared without case folding.
TypeExists_CaseSensitive(d, id, v) == \E t \in TagsOf(d, id) : t.name = LowerOf(v)

\* EXISTS (... WHERE pt2.pokemon_id = p.id AND LOWER(t2.name) = LOWER(?))
TypeExists(d, id, v) == \E t \in TagsOf(d, id) : LOWER(t.name) = LowerOf(v)

\* GROUP_CONCAT(t.name) over the tags of one entity.
RECURSIVE CommaJoin(_)
CommaJoin(names) ==
    IF Len(names) = 0 THEN <<>>
    ELSE IF Len(names) = 1 THEN names[1]
    ELSE names[1] \o <<",">> \o CommaJoin(Tail(names))

RECURSIVE SeqOfSet(_)
SeqOfSet(S) ==
    IF S = {} THEN <<>>
    ELSE LET x == CHOOSE y \in S : TRUE IN <<x>> \o SeqOfSet(S \ {x})

\* Faulty variant: the display join narrowed to one tag.
GroupConcatTypes_LowestSlot(d, id) ==
    LET tags == SortBySlot(SeqOfSet(TagsOf(d, id)))
    IN  CommaJoin([i \in 1..1 |-> tags[i].name])

GroupConcatTypes(d, id) ==
    LET tags == SortBySlot(SeqOfSet(TagsOf(d, id)))
    IN  CommaJoin([i \in 1..Len(tags) |-> tags[i].name])

\* String.prototype.split(','): the pieces between the commas.
RECURSIVE SplitOnComma(_)
SplitOnComma(s) ==
    IF \A i \in 1..Len(s) : s[i] # ","
    THEN <<s>>
    ELSE LET k == CHOOSE i \in 1..Len(s) : s[i] = "," /\ \A j \in 1..(i - 1) : s[j] # ","
         IN  <<SubSeq(s, 1, k - 1)>> \o SplitOnComma(SubSeq(s, k + 1, Len(s)))

\* String.prototype.trim()
RECURSIVE Trim(_)
Trim(s) ==
    IF Len(s) = 0 THEN s
    ELSE IF s[1] = " " THEN Trim(Tail(s))
    ELSE IF s[Len(s)] = " " THEN Trim(SubSeq(s, 1, Len(s) - 1))
    ELSE s

\* SearchQueries.parseTypesString
parseTypesString(typesStr) ==
    IF ~TruthyText(typesStr) THEN <<>>
    ELSE LET pieces == SplitOnComma(typesStr)
         IN  [i \in 1..Len(pieces) |-> Trim(pieces[i])]

\* ORDER BY p.id
RECURSIVE AscendingIds(_)
AscendingIds(S) ==
    IF S = {} THEN <<>>
    ELSE LET least == CHOOSE i \in S : \A j \in S : i <= j
         IN  <<least>> \o AscendingIds(S \ {least})

\* Faulty variant: the LIMIT clause left out.
Limited_Unbounded(seq, v) == seq

\* LIMIT ?: a negative limit is no limit.
Limited(seq, v) ==
    IF v.value < 0 \/ v.value >= Len(seq) THEN seq ELSE SubSeq(seq, 1, v.value)

\* statement.all(...params) of a text built by buildSearchQuery.
ExecSearch(d, query, params) ==
    LET matching ==
            {p \in d.pokemon :
                /\ TagsOf(d, p.id) # {}
                /\ Contains(query, JoinStatTotals) =>
                       p.id \in StatTotalsHaving(d, BoundTo(query, params, JoinStatTotals))
                /\ Contains(query, ExistsType) =>
                       TypeExists(d, p.id, BoundTo(query, params, ExistsType))
                /\ Contains(query, GenerationEq) =>
                       IntegerColumnEq(p.generation, BoundTo(query, params, GenerationEq))}
        ids == AscendingIds({p.id : p \in matching})
        row(id) == LET p == CHOOSE q \in d.pokemon : q.id = id
                   IN  [id |-> p.id, name |-> p.name, generation |-> p.generation,
                        types |-> GroupConcatTypes(d, id)]
    IN  Limited([i \in 1..Len(ids) |-> row(ids[i])], BoundTo(query, params, GroupOrderLimit))

searchPokemon(d, filter) ==
    LET query == buildSearchQuery(filter)
        params == buildSearchParams(filter)
    IN  [kind |-> "search", query |-> query, params |-> params,
         rows |-> ExecSearch(d, query, params)]

\* buildCountQuery: the conditions and the stat_totals JOIN of the search
\* under SELECT COUNT(DISTINCT p.id), with no GROUP BY, ORDER BY or LIMIT.
SelectCount ==
    "SELECT COUNT(DISTINCT p.id) as count FROM pokemon p JOIN pokemon_types pt ON p.id = pt.pokemon_id JOIN types t ON pt.type_id = t.id"

buildCountQuery(filter) ==
    LET conditions ==
            (IF TruthyText(filter.type) THEN <<ExistsType>> ELSE <<>>)
              \o (IF TruthyInt(filter.generation) THEN <<GenerationEq>> ELSE <<>>)
    IN  <<SelectCount>>
          \o (IF TruthyInt(filter.minStat) THEN <<JoinStatTotals>> ELSE <<>>)
          \o WhereClause(conditions)

\* buildSearchParams({ ...filter, limit: 999999 }).slice(0, -1)
buildCountParams(filter) ==
    LET params == buildSearchParams([filter EXCEPT !.limit = 999999])
    IN  SubSeq(params, 1, Len(params) - 1)

\* The rows of pokemon JOIN pokemon_types JOIN types that pass the
\* conditions of a count text.
CountJoin(d, query, params) ==
    {j \in UNION {{[p |-> p, t |-> t] : t \in TagsOf(d, p.id)} : p \in d.pokemon} :
        /\ Contains(query, JoinStatTotals) =>
               j.p.id \in StatTotalsHaving(d, BoundTo(query, params, JoinStatTotals))
        /\ Contains(query, ExistsType) =>
               TypeExists(d, j.p.id, BoundTo(query, params, ExistsType))
        /\ Contains(query, GenerationEq) =>
               IntegerColumnEq(j.p.generation, BoundTo(query, params, GenerationEq))}

\* Faulty variant: COUNT(p.id), every joined row counted.
ExecCount_NoDistinct(d, query, params) == Cardinality(CountJoin(d, query, params))

\* statement.get(...params).count of a text built by buildCountQuery.
ExecCount(d, query, params) == Cardinality({j.p.id : j \in CountJoin(d, query, params)})

countSearchResults(d, filter) ==
    LET query == buildCountQuery(filter)
        params == buildCountParams(filter)
    IN  [kind |-> "count", query |-> query, params |-> params,
         count |-> ExecCount(d, query, params)]

(***************************************************************************)
(* SearchQueries.validateSearchFilter.  A value a caller can put in a      *)
(* field is undefined, NaN, a string of some length, or a number held as   *)
(* twice its value so that halves are numbers too.                         *)
(***************************************************************************)
JsUndefined == [kind |-> "undefined", twice |-> 0]
JsNaN == [kind |-> "NaN", twice |-> 0]
JsString(length) == [kind |-> "string", twice |-> length]
JsNumber(n) == [kind |-> "number", twice |-> 2 * n]
JsHalf(n) == [kind |-> "number", twice |-> 2 * n + 1]

\* JavaScript truthiness: undefined, NaN, 0 and '' are falsy.
JsTruthy(v) == v.kind \in {"string", "number"} /\ v.twice # 0

\* Number.isInteger
NumberIsInteger(v) == v.kind = "number" /\ v.twice % 2 = 0

\* v < n and v > n for a number v
JsLess(v, n) == v.kind = "number" /\ v.twice < 2 * n
JsGreater(v, n) == v.kind = "number" /\ v.twice > 2 * n

TypeMessage == "Type must be a string"
GenerationMessage == "Generation must be an integer between 1 and 9"
MinStatMessage == "Minimum stat must be an integer between 0 and 1000"
LimitMessage == "Limit must be an integer between 1 and 100"

\* filter.x && (!Number.isInteger(filter.x) || filter.x < lo || filter.x > hi)
OutOfRange(v, lo, hi) ==
    JsTruthy(v) /\ (~NumberIsInteger(v) \/ JsLess(v, lo) \/ JsGreater(v, hi))

validateSearchFilter(filter) ==
    LET errors ==
            (IF JsTruthy(filter.type) /\ filter.type.kind # "string"
             THEN <<TypeMessage>> ELSE <<>>)
              \o (IF OutOfRange(filter.generation, 1, 9)
                  THEN <<GenerationMessage>> ELSE <<>>)
              \o (IF OutOfRange(filter.minStat, 0, 1000)
                  THEN <<MinStatMessage>> ELSE <<>>)
              \o (IF OutOfRange(filter.limit, 1, 100)
                  THEN <<LimitMessage>> ELSE <<>>)
    IN  [kind |-> "validation", valid |-> Len(errors) = 0, errors |-> errors]

(***************************************************************************)
(* StatsQueries.getStrongestPokemon and StrongestPokemonTool.execute.      *)
(* A criteria and the attribute name bound for it are sequences of words   *)
(* and separators; Spelling spells the attribute names of the store.       *)
(***************************************************************************)
DefaultStrongestLimit == 10

TotalStats == <<"total", "_", "stats">>

ToolCriteria ==
    {TotalStats, <<"attack">>, <<"defense">>, <<"hp">>, <<"speed">>,
     <<"sp", "_", "attack">>, <<"sp", "_", "defense">>}

Spelling ==
    [n \in StatUniverse |->
        CASE n = "special-attack" -> <<"special", "-", "attack">>
          [] n = "special-defense" -> <<"special", "-", "defense">>
          [] OTHER -> <<n>>]

\* String.prototype.replace(a, b) with a string pattern: the first occurrence.
RECURSIVE ReplaceFirst(_, _, _)
ReplaceFirst(s, a, b) ==
    IF Len(s) = 0 THEN <<>>
    ELSE IF s[1] = a THEN <<b>> \o Tail(s)
    ELSE <<s[1]>> \o ReplaceFirst(Tail(s), a, b)

SelectStat(statColumn) ==
    <<"SELECT p.name, p.id, p.generation,", statColumn,
      "as stat_value FROM pokemon p JOIN stats s ON p.id = s.pokemon_id">>
SumBaseStatColumn == "SUM(s.base_stat)"
BaseStatColumn == "s.base_stat"
JoinTypes == "JOIN pokemon_types pt ON p.id = pt.pokemon_id JOIN types t ON pt.type_id = t.id"
StatNameEq == "s.stat_name = ?"
TypeNameEq == "LOWER(t.name) = LOWER(?)"
GroupByPokemon == "GROUP BY p.id, p.name, p.generation"
OrderDescLimit == "ORDER BY stat_value DESC LIMIT ?"

StrongestPlaceholder == {StatNameEq, TypeNameEq, GenerationEq, OrderDescLimit}

StrongestPlaceholders(query) ==
    SelectSeq(query, LAMBDA fragment : fragment \in StrongestPlaceholder)

StrongestBoundTo(query, params, fragment) ==
    params[CHOOSE k \in 1..Len(StrongestPlaceholders(query)) :
               StrongestPlaceholders(query)[k] = fragment]

\* Faulty variant: the generation condition pushed before the tag condition.
buildStrongestQuery_GenerationFirst(criteria) ==
    LET statColumn ==
            IF criteria.criteria = TotalStats THEN SumBaseStatColumn ELSE BaseStatColumn
        conditions ==
            (IF criteria.criteria # TotalStats THEN <<StatNameEq>> ELSE <<>>)
              \o (IF TruthyInt(criteria.generation) THEN <<GenerationEq>> ELSE <<>>)
              \o (IF TruthyText(criteria.type) THEN <<TypeNameEq>> ELSE <<>>)
        query == SelectStat(statColumn)
                   \o (IF TruthyText(criteria.type) THEN <<JoinTypes>> ELSE <<>>)
    IN  query \o WhereClause(conditions)
              \o (IF criteria.criteria = TotalStats THEN <<GroupByPokemon>> ELSE <<>>)
              \o <<OrderDescLimit>>

buildStrongestQuery(criteria) ==
    LET statColumn ==
            IF criteria.criteria = TotalStats THEN SumBaseStatColumn ELSE BaseStatColumn
        conditions ==
            (IF criteria.criteria # TotalStats THEN <<StatNameEq>> ELSE <<>>)
              \o (IF TruthyText(criteria.type) THEN <<TypeNameEq>> ELSE <<>>)
              \o (IF TruthyInt(criteria.generation) THEN <<GenerationEq>> ELSE <<>>)
        query == SelectStat(statColumn)
                   \o (IF TruthyText(criteria.type) THEN <<JoinTypes>> ELSE <<>>)
    IN  query \o WhereClause(conditions)
              \o (IF criteria.criteria = TotalStats THEN <<GroupByPokemon>> ELSE <<>>)
              \o <<OrderDescLimit>>

\* Faulty variant: the special metrics bound under their stored names.
buildStrongestParams_Canonical(criteria) ==
    LET bound == IF criteria.criteria[1] = "sp"
                 THEN <<"special", "-">> \o SubSeq(criteria.criteria, 3, Len(criteria.criteria))
                 ELSE criteria.criteria
    IN  (IF criteria.criteria # TotalStats THEN <<Text(bound)>> ELSE <<>>)
          \o (IF TruthyText(criteria.type) THEN <<Text(criteria.type)>> ELSE <<>>)
          \o (IF TruthyInt(criteria.generation) THEN <<Integer(criteria.generation)>> ELSE <<>>)
          \o <<Integer(LimitOrDefault(criteria.limit, DefaultStrongestLimit))>>

buildStrongestParams(criteria) ==
    (IF criteria.criteria # TotalStats
        THEN <<Text(ReplaceFirst(criteria.criteria, "_", "-"))>> ELSE <<>>)
      \o (IF TruthyText(criteria.type) THEN <<Text(criteria.type)>> ELSE <<>>)
      \o (IF TruthyInt(criteria.generation) THEN <<Integer(criteria.generation)>> ELSE <<>>)
      \o <<Integer(LimitOrDefault(criteria.limit, DefaultStrongestLimit))>>

\* The rows of pokemon JOIN stats [JOIN pokemon_types JOIN types] that pass
\* the WHERE clause.
StrongestJoin(d, query, params) ==
    {j \in UNION {{[p |-> p, s |-> s, t |-> t]
                   : s \in StatRowsOf(d, p.id),
                     t \in IF Contains(query, JoinTypes) THEN TagsOf(d, p.id) ELSE {NullTag}}
                  : p \in d.pokemon} :
        /\ Contains(query, StatNameEq) =>
               LET v == StrongestBoundTo(query, params, StatNameEq)
               IN  v.type = "text" /\ Spelling[j.s.stat_name] = v.value
        /\ Contains(query, TypeNameEq) =>
               LOWER(j.t.name) = LowerOf(StrongestBoundTo(query, params, TypeNameEq))
        /\ Contains(query, GenerationEq) =>
               IntegerColumnEq(j.p.generation, StrongestBoundTo(query, params, GenerationEq))}

RECURSIVE SumJoined(_)
SumJoined(J) ==
    IF J = {} THEN 0
    ELSE LET j == CHOOSE x \in J : TRUE
         IN  j.s.base_stat + SumJoined(J \ {j})

StrongestRow(p, v) ==
    [name |-> p.name, id |-> p.id, generation |-> p.generation, stat_value |-> v]

\* ORDER BY stat_value DESC: rows of equal value in an order the engine chooses.
RECURSIVE InsertByValueDesc(_, _)
InsertByValueDesc(sorted, e) ==
    IF Len(sorted) = 0 THEN <<e>>
    ELSE IF sorted[Len(sorted)].stat_value >= e.stat_value
         THEN Append(sorted, e)
         ELSE Append(InsertByValueDesc(SubSeq(sorted, 1, Len(sorted) - 1), e),
                     sorted[Len(sorted)])

RECURSIVE SortByValueDesc(_)
SortByValueDesc(s) ==
    IF Len(s) = 0 THEN <<>>
    ELSE InsertByValueDesc(SortByValueDesc(SubSeq(s, 1, Len(s) - 1)), s[Len(s)])

\* statement.all(...params) of a text built by buildStrongestQuery.
ExecStrongest(d, query, params) ==
    LET joined == StrongestJoin(d, query, params)
        grouped == SeqOfSet({StrongestRow(p, SumJoined({j \in joined : j.p = p}))
                             : p \in {j.p : j \in joined}})
        plain == LET js == SeqOfSet(joined)
                 IN  [i \in 1..Len(js) |-> StrongestRow(js[i].p, js[i].s.base_stat)]
        selected == IF Contains(query, GroupByPokemon) THEN grouped ELSE plain
    IN  Limited(SortByValueDesc(selected), StrongestBoundTo(query, params, OrderDescLimit))

\* StatsQueries.getStrongestPokemon
getStrongestPokemon(d, criteria) ==
    LET query == buildStrongestQuery(criteria)
        params == buildStrongestParams(criteria)
    IN  [kind |-> "strongest", query |-> query, params |-> params,
         rows |-> ExecStrongest(d, query, params)]

\* StrongestPokemonTool.execute: the switch on criteria, then the same text
\* and parameters built inline.
StrongestPokemonToolResult(d, args) ==
    IF args.criteria \notin ToolCriteria
    THEN [kind |-> "error", message |-> "Invalid criteria"]
    ELSE getStrongestPokemon(d, args)

(***************************************************************************)
(* The fixed statements of StatsQueries, TypesQueries and AbilitiesQueries.*)
(* Rows that are equal in the ORDER BY key come in the order of the scan,  *)
(* which the caller does not control: scan is a sequence of the rows.      *)
(***************************************************************************)
\* ORDER BY CASE stat_name WHEN 'hp' THEN 1 ... WHEN 'speed' THEN 6 END:
\* a name outside the six has a NULL key and sorts first.
StatCaseRank(n) ==
    IF n \in CanonicalNames THEN CHOOSE i \in 1..Len(statOrder) : statOrder[i] = n ELSE 0

\* The rows of a sequence sorted stably on the key each carries in the
\* field slot (the keys of the stores are positive, NULL is 0).
Unkeyed(keyed) ==
    LET sorted == SortBySlot(keyed)
    IN  [i \in 1..Len(sorted) |-> sorted[i].row]

\* StatsQueries.getStatsByPokemonId
getStatsByPokemonId(scan) ==
    Unkeyed([i \in 1..Len(scan) |->
                [slot |-> StatCaseRank(scan[i].stat_name),
                 row |-> [stat_name |-> scan[i].stat_name,
                          base_stat |-> scan[i].base_stat, effort |-> scan[i].effort]]])

\* Faulty variant: the statement without its ORDER BY pt.slot.
getTypesByPokemonId_ScanOrder(scan) == [i \in 1..Len(scan) |-> scan[i].name]

\* TypesQueries.getTypesByPokemonId: rows.map((row) => row.name)
getTypesByPokemonId(scan) ==
    LET sorted == SortBySlot(scan)
    IN  [i \in 1..Len(sorted) |-> sorted[i].name]

\* AbilitiesQueries.getAbilitiesByPokemonId
getAbilitiesByPokemonId(scan) ==
    LET sorted == SortBySlot(scan)
    IN  [i \in 1..Len(sorted) |->
            [name |-> sorted[i].name, is_hidden |-> ToBoolean(sorted[i].is_hidden)]]

\* The stores hold no type and no ability without an entity.
typeExists(d, typeName) ==
    \E t \in d.pokemon_types : LOWER(t.name) = LOWER(typeName)

abilityExists(d, abilityName) ==
    \E a \in d.pokemon_abilities : LOWER(a.name) = LOWER(abilityName)

\* pokemon JOIN pokemon_types JOIN types WHERE LOWER(t.name) = LOWER(?)
PokemonByTypeJoin(d, typeName) ==
    {[p |-> x[1], name |-> x[2].name] :
        x \in {y \in d.pokemon \X d.pokemon_types :
                  y[2].pokemon_id = y[1].id /\ LOWER(y[2].name) = LOWER(typeName)}}

PokemonByAbilityJoin(d, abilityName) ==
    {[p |-> x[1], name |-> x[2].name] :
        x \in {y \in d.pokemon \X d.pokemon_abilities :
                  y[2].pokemon_id = y[1].id /\ LOWER(y[2].name) = LOWER(abilityName)}}

\* ORDER BY p.id LIMIT ?, with limit: number = 20
PokemonByRows(scan, limit) ==
    LET sorted == Unkeyed([i \in 1..Len(scan) |-> [slot |-> scan[i].p.id, row |-> scan[i]]])
    IN  Limited([i \in 1..Len(sorted) |->
                    [name |-> sorted[i].p.name, id |-> sorted[i].p.id,
                     generation |-> sorted[i].p.generation]],
                Integer(LimitOrDefault(limit, 20)))

(***************************************************************************)
(* GetPokemonTool over the centralized queries.                            *)
(***************************************************************************)
\* types.map((type, index) => ({ name: type.name, slot: index + 1 }))
Renumber(seq) == [i \in 1..Len(seq) |-> [seq[i] EXCEPT !.slot = i]]

GetPokemonToolResult(d, identifier) ==
    LET rs == getPokemonComplete(d, identifier)
    IN  IF Len(rs) = 0
        THEN [kind |-> "notFound", identifier |-> identifier]
        ELSE [kind |-> "pokemon",
              pokemon |-> extractPokemon(rs).row,
              stats |-> extractStats(rs),
              types |-> Renumber(extractTypes(rs)),
              abilities |-> Renumber(extractAbilities(rs))]

(***************************************************************************)
(* GetPokemonTool of tools/getPokemon.ts, with its own statement of the    *)
(* same text and its own three extractors.                                 *)
(***************************************************************************)
\* Map.prototype.set: a new key is appended, the value of a key already
\* present is replaced where it stands.
slotMapSet(map, e) ==
    IF slotMapHas(map, e.slot)
    THEN [i \in 1..Len(map) |-> IF map[i].slot = e.slot THEN e ELSE map[i]]
    ELSE Append(map, e)

RECURSIVE GetPokemonTool_statsMapOf(_)
GetPokemonTool_statsMapOf(rs) ==
    IF Len(rs) = 0 THEN <<>>
    ELSE LET map == GetPokemonTool_statsMapOf(SubSeq(rs, 1, Len(rs) - 1))
             row == rs[Len(rs)]
         IN  IF /\ TruthyName(row.stat_name)
                /\ row.base_stat # NullInt
                /\ row.effort # NullInt
                /\ ~statsMapHas(map, row.stat_name)
             THEN Append(map, [stat_name |-> row.stat_name,
                               base_stat |-> row.base_stat, effort |-> row.effort])
             ELSE map

GetPokemonTool_extractStats(rs) == InStatOrder(GetPokemonTool_statsMapOf(rs), 1)

RECURSIVE GetPokemonTool_typesMapOf(_)
GetPokemonTool_typesMapOf(rs) ==
    IF Len(rs) = 0 THEN <<>>
    ELSE LET map == GetPokemonTool_typesMapOf(SubSeq(rs, 1, Len(rs) - 1))
             row == rs[Len(rs)]
         IN  IF TruthyText(row.type_name) /\ row.type_slot # NullInt
             THEN slotMapSet(map, [name |-> row.type_name, slot |-> row.type_slot])
             ELSE map

\* Array.from(typesMap.entries()).sort(([a], [b]) => a - b).map(([, type]) => type)
GetPokemonTool_extractTypes(rs) ==
    LET sorted == SortBySlot(GetPokemonTool_typesMapOf(rs))
    IN  [i \in 1..Len(sorted) |-> [name |-> sorted[i].name]]

RECURSIVE GetPokemonTool_abilitiesMapOf(_)
GetPokemonTool_abilitiesMapOf(rs) ==
    IF Len(rs) = 0 THEN <<>>
    ELSE LET map == GetPokemonTool_abilitiesMapOf(SubSeq(rs, 1, Len(rs) - 1))
             row == rs[Len(rs)]
         IN  IF /\ TruthyText(row.ability_name)
                /\ row.is_hidden # NullInt
                /\ row.ability_slot # NullInt
             THEN slotMapSet(map, [name |-> row.ability_name,
                                   is_hidden |-> row.is_hidden,
                                   slot |-> row.ability_slot])
             ELSE map

GetPokemonTool_extractAbilities(rs) ==
    LET sorted == SortBySlot(GetPokemonTool_abilitiesMapOf(rs))
    IN  [i \in 1..Len(sorted) |->
            [name |-> sorted[i].name, is_hidden |-> sorted[i].is_hidden]]

GetPokemonTool_extractPokemonData(row) ==
    [id |-> row.id, name |-> row.name, generation |-> row.generation]

(***************************************************************************)
(* Inputs.                                                                 *)
(***************************************************************************)
IdentAlphabet == {"1", "2", "a", "A", "b", "+"}

Identifiers == UNION {[1..n -> IdentAlphabet] : n \in 0..MaxIdentLen}

MaxTotal == 2 * MaxStat

SearchFilters ==
    [type : {UndefinedText, <<>>, <<"G">>, <<"d">>},
     generation : {UndefinedInt} \cup 0..MaxGen,
     minStat : {UndefinedInt} \cup 0..(MaxTotal + 1),
     limit : {UndefinedInt} \cup 1..MaxLimit]

\* Omit<PokemonSearchFilter, 'limit'>
CountFilters == {filter \in SearchFilters : filter.limit = UndefinedInt}

\* Arguments of the lookups by id and by name.
LookupIds == 0..3
TypeArgs == {<<"G">>, <<"d">>}
AbilityArgs == {<<"X">>, <<"w">>}
Limits == {UndefinedInt} \cup 1..MaxLimit

\* The keys of all caches and one that no module prepares.
Keys ==
    {"pokemonById", "pokemonByName", "pokemonComplete", "statsByPokemonId", "strongestBase",
     "typeExists", "typesByPokemonId", "pokemonByType", "abilitiesByPokemonId",
     "pokemonByAbility", "abilityExists", "searchBase", "neverPrepared"}

\* Filters handed to validateSearchFilter: each field absent, at and
\* beside the ends of its range, fractional, or not a number.
ValidatedFilters ==
    [type : {JsUndefined, JsString(0), JsString(1), JsNumber(5)},
     generation : {JsUndefined, JsNaN, JsNumber(0), JsNumber(1), JsHalf(1), JsNumber(9),
                   JsNumber(10)},
     minStat : {JsUndefined, JsNumber(-1), JsNumber(0), JsHalf(0), JsNumber(1000),
                JsNumber(1001)},
     limit : {JsUndefined, JsNumber(0), JsNumber(1), JsHalf(1), JsNumber(100),
              JsNumber(101)}]

\* Those of them that supply a generation and a limit at most.
GenerationLimitFilters ==
    {filter \in ValidatedFilters :
        filter.type = JsUndefined /\ filter.minStat = JsUndefined}

\* Pairs of identifiers to compare: one of them of any length.
ShortIdentifiers == {identifier \in Identifiers : Len(identifier) <= 1}

ComparePairs ==
    (Identifiers \X ShortIdentifiers) \cup (ShortIdentifiers \X Identifiers)

\* Entities as fetched: entity 1 at two states of the remote source, one
\* with an absent base value and an absent slot, and entity 2.
Fetched ==
    {[id |-> 1, name |-> <<"a">>, generation |-> 1,
      stats |-> <<Stat("hp", 1), Stat("attack", 2)>>,
      types |-> <<Tag(<<"g">>, 1)>>,
      abilities |-> <<[name |-> <<"x">>, is_hidden |-> FALSE, slot |-> 1]>>],
     [id |-> 1, name |-> <<"A">>, generation |-> UndefinedInt,
      stats |-> <<[stat_name |-> "hp", base_stat |-> NullInt, effort |-> 0]>>,
      types |-> <<Tag(<<"g">>, UndefinedInt), Tag(<<"f">>, 2)>>,
      abilities |-> <<>>],
     [id |-> 2, name |-> <<"b">>, generation |-> 2,
      stats |-> <<Stat("hp", 2)>>,
      types |-> <<Tag(<<"f">>, 1)>>,
      abilities |-> <<[name |-> <<"y">>, is_hidden |-> TRUE, slot |-> UndefinedInt]>>]}

\* Batches of one or two fetched entities, the same one twice included.
Batches == UNION {[1..n -> Fetched] : n \in 1..2}

\* The store after the same entity was ingested twice, and the store after
\* it was ingested once.
FetchedFirst == CHOOSE f \in Fetched : f.id = 1 /\ f.name = <<"a">>

IngestedOnce == ingestPokemonBatch(EmptyStore, <<FetchedFirst>>)

IngestedTwice == ingestPokemonBatch(IngestedOnce, <<FetchedFirst>>)

\* Stores whose entity 1 has a tag and any set of attribute names.
NamedStatStores ==
    {MkStore((1 :> [name |-> <<"a">>, generation |-> 1,
                    stats |-> {Stat(n, CollationRank(n)) : n \in N},
                    types |-> {Tag(<<"g">>, 1)}, abilities |-> {}]))
     : N \in {M \in SUBSET StatUniverse : Cardinality(M) <= MaxRel}}

TotalsStores == NamedStatStores \cup {IngestedOnce, IngestedTwice}

MaxThreshold == 16

TotalsFilters ==
    [type : {UndefinedText}, generation : {UndefinedInt},
     minStat : 1..MaxThreshold, limit : {UndefinedInt}]

StrongestCriteria ==
    [criteria : ToolCriteria \cup {<<"invalid">>},
     type : {UndefinedText, <<"G">>, <<"d">>},
     generation : {UndefinedInt} \cup 1..MaxGen,
     limit : {UndefinedInt} \cup 1..MaxLimit]

TotalsCriteria == {c \in StrongestCriteria : c.criteria = TotalStats}

\* Arrival orders of n rows: every permutation of a small row set, the
\* rotations and their reversals of a larger one.
Rotation(n, k) == [i \in 1..n |-> ((i + k - 1) % n) + 1]
Reversal(n, k) == [i \in 1..n |-> ((n - i + k) % n) + 1]

Orders(n) ==
    IF n <= MaxPermRows THEN Permutations(1..n)
    ELSE {Rotation(n, k) : k \in 0..(n - 1)} \cup {Reversal(n, k) : k \in 0..(n - 1)}

Permute(rs, order) == [i \in 1..Len(rs) |-> rs[order[i]]]

(***************************************************************************)
(* ComparePokemonTool.                                                     *)
(***************************************************************************)
\* No call in hand, nothing returned.
NoCall == [op |-> "none"]
NoResult == [kind |-> "none"]

\* The rows of a set in the order of some scan of its table.
Scans(S) == {Permute(SeqOfSet(S), order) : order \in Orders(Cardinality(S))}

\* The PokemonData built for one entity, for each order in which the three
\* statements can scan rows that are equal in their ORDER BY keys.
PokemonDataOf(d, pokemon) ==
    {[id |-> pokemon.id, name |-> pokemon.name, generation |-> pokemon.generation,
      stats |-> getStatsByPokemonId(stats),
      types |-> [i \in 1..Len(types) |->
                    [name |-> getTypesByPokemonId(types)[i], slot |-> i]],
      abilities |-> Renumber([i \in 1..Len(abilities) |->
                                 [name |-> getAbilitiesByPokemonId(abilities)[i].name,
                                  is_hidden |-> getAbilitiesByPokemonId(abilities)[i].is_hidden,
                                  slot |-> 0]])]
     : stats \in Scans(StatRowsOf(d, pokemon.id)),
       types \in Scans(TagsOf(d, pokemon.id)),
       abilities \in Scans(TraitsOf(d, pokemon.id))}

\* The comparison data of two results of getPokemon, when both are rows.
Comparisons(d, pokemon1, pokemon2) ==
    IF pokemon1 = Undefined \/ pokemon2 = Undefined THEN {NoResult}
    ELSE {[kind |-> "comparison", pokemon1 |-> data1, pokemon2 |-> data2]
          : data1 \in PokemonDataOf(d, pokemon1.row),
            data2 \in PokemonDataOf(d, pokemon2.row)}

formatNotFound(identifier) == [kind |-> "notFound", identifier |-> identifier]

\* Faulty variant: the second identifier tested before the first.
ComparePokemonToolResult_SecondFirst(pokemon1, pokemon2, identifier1, identifier2, comparison) ==
    IF pokemon2 = Undefined THEN formatNotFound(identifier2)
    ELSE IF pokemon1 = Undefined THEN formatNotFound(identifier1)
    ELSE comparison

ComparePokemonToolResult(pokemon1, pokemon2, identifier1, identifier2, comparison) ==
    IF pokemon1 = Undefined THEN formatNotFound(identifier1)
    ELSE IF pokemon2 = Undefined THEN formatNotFound(identifier2)
    ELSE comparison

(***************************************************************************)
(* BaseQueryModule.  The statement cache of a module is the function from  *)
(* the keys prepared so far to the SQL text compiled under each.           *)
(***************************************************************************)
Modules ==
    {"PokemonQueries", "StatsQueries", "TypesQueries", "AbilitiesQueries", "SearchQueries"}

\* this.statements.set(key, this.db.prepare(sql))
prepare(map, key, sql) ==
    [k \in DOMAIN map \cup {key} |-> IF k = key THEN sql ELSE map[k]]

StatementNotFound(key) ==
    [kind |-> "error", message |-> "Statement not found", key |-> key]

\* this.statements.get(key), or the error when there is none.
getStatement(map, key) ==
    IF key \in DOMAIN map THEN [kind |-> "statement", sql |-> map[key]]
    ELSE StatementNotFound(key)

\* Faulty variant: TypesQueries constructed without typesByPokemonId.
prepareStatements_Partial(module) ==
    CASE module = "PokemonQueries" ->
           prepare(prepare(prepare(<<>>,
               "pokemonById", "SELECT * FROM pokemon WHERE id = ?"),
               "pokemonByName", "SELECT * FROM pokemon WHERE LOWER(name) = LOWER(?)"),
               "pokemonComplete", "SELECT p.*, ... WHERE p.id = ? OR LOWER(p.name) = LOWER(?) ORDER BY s.stat_name, pt.slot, pa.slot")
      [] module = "StatsQueries" ->
           prepare(prepare(<<>>,
               "statsByPokemonId", "SELECT stat_name, base_stat, effort FROM stats WHERE pokemon_id = ? ORDER BY CASE stat_name ... END"),
               "strongestBase", "SELECT p.name, p.id, p.generation, ? as stat_value FROM pokemon p JOIN stats s ON p.id = s.pokemon_id")
      [] module = "TypesQueries" ->
           prepare(prepare(<<>>,
               "typeExists", "SELECT id FROM types WHERE LOWER(name) = LOWER(?)"),
               "pokemonByType", "SELECT p.name, p.id, p.generation ... WHERE LOWER(t.name) = LOWER(?) ORDER BY p.id LIMIT ?")
      [] module = "AbilitiesQueries" ->
           prepare(prepare(prepare(<<>>,
               "abilitiesByPokemonId", "SELECT a.name, pa.is_hidden ... WHERE pa.pokemon_id = ? ORDER BY pa.slot"),
               "pokemonByAbility", "SELECT p.name, p.id, p.generation ... WHERE LOWER(a.name) = LOWER(?) ORDER BY p.id LIMIT ?"),
               "abilityExists", "SELECT id FROM abilities WHERE LOWER(name) = LOWER(?)")
      [] module = "SearchQueries" ->
           prepare(<<>>, "searchBase", SelectSearch)

\* prepareStatements() of each module, run by the constructor.
prepareStatements(module) ==
    CASE module = "PokemonQueries" ->
           prepare(prepare(prepare(<<>>,
               "pokemonById", "SELECT * FROM pokemon WHERE id = ?"),
               "pokemonByName", "SELECT * FROM pokemon WHERE LOWER(name) = LOWER(?)"),
               "pokemonComplete", "SELECT p.*, ... WHERE p.id = ? OR LOWER(p.name) = LOWER(?) ORDER BY s.stat_name, pt.slot, pa.slot")
      [] module = "StatsQueries" ->
           prepare(prepare(<<>>,
               "statsByPokemonId", "SELECT stat_name, base_stat, effort FROM stats WHERE pokemon_id = ? ORDER BY CASE stat_name ... END"),
               "strongestBase", "SELECT p.name, p.id, p.generation, ? as stat_value FROM pokemon p JOIN stats s ON p.id = s.pokemon_id")
      [] module = "TypesQueries" ->
           prepare(prepare(prepare(<<>>,
               "typeExists", "SELECT id FROM types WHERE LOWER(name) = LOWER(?)"),
               "typesByPokemonId", "SELECT t.name ... WHERE pt.pokemon_id = ? ORDER BY pt.slot"),
               "pokemonByType", "SELECT p.name, p.id, p.generation ... WHERE LOWER(t.name) = LOWER(?) ORDER BY p.id LIMIT ?")
      [] module = "AbilitiesQueries" ->
           prepare(prepare(prepare(<<>>,
               "abilitiesByPokemonId", "SELECT a.name, pa.is_hidden ... WHERE pa.pokemon_id = ? ORDER BY pa.slot"),
               "pokemonByAbility", "SELECT p.name, p.id, p.generation ... WHERE LOWER(a.name) = LOWER(?) ORDER BY p.id LIMIT ?"),
               "abilityExists", "SELECT id FROM abilities WHERE LOWER(name) = LOWER(?)")
      [] module = "SearchQueries" ->
           prepare(<<>>, "searchBase", SelectSearch)

\* DatabaseService: one instance of each module, constructed once.
Constructed == [module \in Modules |-> prepareStatements(module)]

\* The value of an operation that fetches its statement under key: the
\* error of getStatement when the key is not in the cache.
WithStatement(map, key, value) ==
    IF getStatement(map, key).kind = "error" THEN getStatement(map, key) ELSE value

(***************************************************************************)
(* Operations.  All calls are synchronous and one at a time: call, rows    *)
(* and result are the arguments and the return values of the call in       *)
(* hand, compiled the texts it passed to db.prepare; the store is never    *)
(* written by this layer and the caches are filled by the constructors.    *)
(***************************************************************************)
GetPokemon(identifier) ==
    /\ call = NoCall
    /\ call' = [op |-> "getPokemon", identifier |-> identifier]
    /\ result' = WithStatement(statements["PokemonQueries"],
                               IF isNumericId(identifier) THEN "pokemonById"
                                                          ELSE "pokemonByName",
                               getPokemon(db, identifier))
    /\ rows' = <<>>
    /\ compiled' = <<>>
    /\ UNCHANGED <<db, statements, client>>

GetPokemonComplete(identifier) ==
    /\ call = NoCall
    /\ call' = [op |-> "getPokemonComplete", identifier |-> identifier]
    /\ result' = WithStatement(statements["PokemonQueries"], "pokemonComplete",
                               [kind |-> "rows"])
    /\ rows' = IF result'.kind = "rows" THEN getPokemonComplete(db, identifier) ELSE <<>>
    /\ compiled' = <<>>
    /\ UNCHANGED <<db, statements, client>>

\* The four static functions of PokemonDataExtractor on the rows returned by
\* getPokemonComplete, in any arrival order.
ExtractRows(order) ==
    /\ call.op = "getPokemonComplete"
    /\ result.kind = "rows"
    /\ LET rs == Permute(rows, order)
       IN  /\ rows' = rs
           /\ result' = [kind |-> "extracted",
                         pokemon |-> extractPokemon(rs),
                         stats |-> extractStats(rs),
                         types |-> extractTypes(rs),
                         abilities |-> extractAbilities(rs)]
    /\ call' = [op |-> "extract", identifier |-> call.identifier]
    /\ compiled' = <<>>
    /\ UNCHANGED <<db, statements, client>>

\* The body of GetPokemonTool.execute of tools/getPokemon.ts after its
\* test for no rows, on the rows of the same text in any arrival order.
GetPokemonToolExtract(order) ==
    /\ call.op = "getPokemonComplete"
    /\ result.kind = "rows"
    /\ Len(rows) > 0
    /\ LET rs == Permute(rows, order)
       IN  /\ rows' = rs
           /\ result' = [kind |-> "toolExtracted",
                         pokemon |-> GetPokemonTool_extractPokemonData(rs[1]),
                         stats |-> GetPokemonTool_extractStats(rs),
                         types |-> GetPokemonTool_extractTypes(rs),
                         abilities |-> GetPokemonTool_extractAbilities(rs)]
    /\ call' = [op |-> "toolExtract", identifier |-> call.identifier]
    /\ compiled' = <<>>
    /\ UNCHANGED <<db, statements, client>>

GetPokemonToolExecute(identifier) ==
    /\ call = NoCall
    /\ call' = [op |-> "GetPokemonTool.execute", identifier |-> identifier]
    /\ result' = WithStatement(statements["PokemonQueries"], "pokemonComplete",
                               GetPokemonToolResult(db, identifier))
    /\ rows' = <<>>
    /\ compiled' = <<>>
    /\ UNCHANGED <<db, statements, client>>

SearchPokemon(filter) ==
    /\ call = NoCall
    /\ call' = [op |-> "searchPokemon", filter |-> filter]
    /\ result' = searchPokemon(db, filter)
    /\ rows' = <<>>
    /\ compiled' = <<buildSearchQuery(filter)>>
    /\ UNCHANGED <<db, statements, client>>

CountSearchResults(filter) ==
    /\ call = NoCall
    /\ call' = [op |-> "countSearchResults", filter |-> filter]
    /\ result' = countSearchResults(db, filter)
    /\ rows' = <<>>
    /\ compiled' = <<buildCountQuery(filter)>>
    /\ UNCHANGED <<db, statements, client>>

GetStrongestPokemon(criteria) ==
    /\ call = NoCall
    /\ call' = [op |-> "getStrongestPokemon", criteria |-> criteria]
    /\ result' = getStrongestPokemon(db, criteria)
    /\ rows' = <<>>
    /\ compiled' = <<buildStrongestQuery(criteria)>>
    /\ UNCHANGED <<db, statements, client>>

StrongestPokemonToolExecute(args) ==
    /\ call = NoCall
    /\ call' = [op |-> "StrongestPokemonTool.execute", criteria |-> args]
    /\ result' = StrongestPokemonToolResult(db, args)
    /\ rows' = <<>>
    /\ compiled' = IF args.criteria \in ToolCriteria THEN <<buildStrongestQuery(args)>>
                                                     ELSE <<>>
    /\ UNCHANGED <<db, statements, client>>

ValidateSearchFilter(filter) ==
    /\ call = NoCall
    /\ call' = [op |-> "validateSearchFilter", filter |-> filter]
    /\ result' = validateSearchFilter(filter)
    /\ rows' = <<>>
    /\ compiled' = <<>>
    /\ UNCHANGED <<db, statements, client>>

\* Both lookups run before either result is tested.
ComparePokemonToolExecute(identifier1, identifier2) ==
    /\ call = NoCall
    /\ call' = [op |-> "ComparePokemonTool.execute",
                identifier1 |-> identifier1, identifier2 |-> identifier2]
    /\ LET pokemon1 == getPokemon(db, identifier1)
           pokemon2 == getPokemon(db, identifier2)
       IN  \E comparison \in Comparisons(db, pokemon1, pokemon2) :
               result' = ComparePokemonToolResult(pokemon1, pokemon2,
                                                  identifier1, identifier2, comparison)
    /\ rows' = <<>>
    /\ compiled' = <<>>
    /\ UNCHANGED <<db, statements, client>>

\* One batch of the ingestion program, which runs apart from the server;
\* no more than MaxStatRows rows of stats are written.
IngestPokemonBatch(batch) ==
    /\ call = NoCall
    /\ Cardinality(ingestPokemonBatch(db, batch).stats) <= MaxStatRows
    /\ db' = ingestPokemonBatch(db, batch)
    /\ call' = [op |-> "ingestPokemonBatch", batch |-> batch]
    /\ result' = [kind |-> "count", count |-> Len(batch)]
    /\ rows' = <<>>
    /\ compiled' = <<>>
    /\ UNCHANGED <<statements, client>>

\* BaseQueryModule.getStatement, as a subclass calls it.
GetStatement(module, key) ==
    /\ call = NoCall
    /\ call' = [op |-> "getStatement", module |-> module, key |-> key]
    /\ result' = getStatement(statements[module], key)
    /\ rows' = <<>>
    /\ compiled' = <<>>
    /\ UNCHANGED <<db, statements, client>>

\* An operation whose one statement is fetched under key, with its value.
Fetching(op, module, key, args, value) ==
    /\ call = NoCall
    /\ call' = [op |-> op, module |-> module, key |-> key, args |-> args]
    /\ result' = WithStatement(statements[module], key, value)
    /\ rows' = <<>>
    /\ compiled' = <<>>
    /\ UNCHANGED <<db, statements, client>>

GetStatsByPokemonId(pokemonId) ==
    \E scan \in Scans(StatRowsOf(db, pokemonId)) :
        Fetching("getStatsByPokemonId", "StatsQueries", "statsByPokemonId", pokemonId,
                 [kind |-> "stats", stats |-> getStatsByPokemonId(scan)])

GetTypesByPokemonId(pokemonId) ==
    \E scan \in Scans(TagsOf(db, pokemonId)) :
        Fetching("getTypesByPokemonId", "TypesQueries", "typesByPokemonId", pokemonId,
                 [kind |-> "names", names |-> getTypesByPokemonId(scan)])

GetAbilitiesByPokemonId(pokemonId) ==
    \E scan \in Scans(TraitsOf(db, pokemonId)) :
        Fetching("getAbilitiesByPokemonId", "AbilitiesQueries", "abilitiesByPokemonId",
                 pokemonId,
                 [kind |-> "abilities", abilities |-> getAbilitiesByPokemonId(scan)])

TypeExistsCall(typeName) ==
    Fetching("typeExists", "TypesQueries", "typeExists", typeName,
             [kind |-> "boolean", value |-> typeExists(db, typeName)])

AbilityExistsCall(abilityName) ==
    Fetching("abilityExists", "AbilitiesQueries", "abilityExists", abilityName,
             [kind |-> "boolean", value |-> abilityExists(db, abilityName)])

GetPokemonByType(typeName, limit) ==
    \E scan \in Scans(PokemonByTypeJoin(db, typeName)) :
        Fetching("getPokemonByType", "TypesQueries", "pokemonByType",
                 <<typeName, limit>>,
                 [kind |-> "pokemon", rows |-> PokemonByRows(scan, limit)])

GetPokemonByAbility(abilityName, limit) ==
    \E scan \in Scans(PokemonByAbilityJoin(db, abilityName)) :
        Fetching("getPokemonByAbility", "AbilitiesQueries", "pokemonByAbility",
                 <<abilityName, limit>>,
                 [kind |-> "pokemon", rows |-> PokemonByRows(scan, limit)])

\* The caller takes the return value; the next call starts afresh.
Return ==
    /\ call # NoCall
    /\ call' = NoCall
    /\ rows' = <<>>
    /\ result' = NoResult
    /\ compiled' = <<>>
    /\ UNCHANGED <<db, statements, client>>

(***************************************************************************)
(* RateLimiter and PokeApiClient.fetchWithRetry; the older fetchWithRetry  *)
(* of PokemonDataIngestion.  Time is in milliseconds; the clock advances   *)
(* by Tick.  A fetcher is one call of fetchWithRetry in flight: where it    *)
(* stands, the attempt it is at, the time its timer is due.                *)
(***************************************************************************)
requestsPerMinute == 60
minInterval == 60000 \div requestsPerMinute
StartTime == minInterval
DefaultRetries == 3
DefaultConfig == [maxRetries |-> 3, requestDelayMs |-> 100]

Callers == 1..NumCallers
Urls == {"", "u"}
RetryCounts == {UndefinedInt} \cup 0..MaxRetries
Jitters == {0, Tick}

Configs == [maxRetries : 1..MaxRetries, requestDelayMs : {0, Tick}]

NoFetch ==
    [pc |-> "idle", client |-> "none", url |-> "", maxRetries |-> 0, i |-> 0, timer |-> 0,
     requests |-> 0, outcome |-> "none"]

Min(a, b) == IF a <= b THEN a ELSE b

RECURSIVE Pow2(_)
Pow2(n) == IF n = 0 THEN 1 ELSE 2 * Pow2(n - 1)

\* Math.min(1000 * Math.pow(2, i), 10000)
backoffMs(i) == Min(1000 * Pow2(i), 10000)

\* 1000 * (i + 1)
legacyBackoffMs(i) == 1000 * (i + 1)

\* The head of `for (let i = 0; i < maxRetries; i++)` reached by a fetcher:
\* the body sends the request at once, the exit leaves the function with
\* no return statement.
LoopHead(f) ==
    IF f.i < f.maxRetries
    THEN [f EXCEPT !.pc = "fetching", !.requests = f.requests + 1]
    ELSE [f EXCEPT !.pc = "done", !.outcome = "undefined"]

Sends(f) == f.i < f.maxRetries

\* The catch block: the last attempt throws, the others back off.
Failed(f, jitter, backoff) ==
    IF f.i = f.maxRetries - 1
    THEN [f EXCEPT !.pc = "done", !.outcome = "error"]
    ELSE [f EXCEPT !.pc = "backoff", !.timer = clock + backoff + jitter]

\* RateLimiter.waitForSlot up to its await: the time still to wait.
SlotWait ==
    IF clock - lastRequestTime < minInterval
    THEN minInterval - (clock - lastRequestTime)
    ELSE 0

\* Time passes.
Advance ==
    /\ clock < StartTime + MaxTicks * Tick
    /\ clock' = clock + Tick
    /\ UNCHANGED <<lastRequestTime, requestCount, config, fetchers, sent, server>>

\* What follows `await this.rateLimiter.waitForSlot()` once the slot is
\* taken, in the same turn of the event loop: the configured delay, or the
\* loop at once.
AfterSlot(f) ==
    IF config.requestDelayMs > 0
    THEN [f EXCEPT !.pc = "delay", !.timer = clock + config.requestDelayMs]
    ELSE LoopHead(f)

SendsAfterSlot(f) == config.requestDelayMs = 0 /\ Sends(f)

\* PokeApiClient.fetchWithRetry(url, retries) up to its first timer.
FetchWithRetry(p, url, retries) ==
    /\ fetchers[p].pc \in {"idle", "done"}
    /\ requestCount < MaxSent
    /\ LET maxRetries == IF retries \in {UndefinedInt, NullInt}
                         THEN config.maxRetries ELSE retries
           f == [NoFetch EXCEPT !.client = "PokeApiClient", !.url = url,
                                !.maxRetries = maxRetries]
       IN  IF url = ""
           THEN /\ fetchers' = [fetchers EXCEPT ![p] =
                                    [f EXCEPT !.pc = "done", !.outcome = "error"]]
                /\ UNCHANGED <<lastRequestTime, requestCount, sent>>
           ELSE IF SlotWait > 0
           THEN /\ fetchers' = [fetchers EXCEPT ![p] =
                                    [f EXCEPT !.pc = "waitForSlot", !.timer = clock + SlotWait]]
                /\ UNCHANGED <<lastRequestTime, requestCount, sent>>
           ELSE /\ fetchers' = [fetchers EXCEPT ![p] = AfterSlot(f)]
                /\ sent' = IF SendsAfterSlot(f) THEN Append(sent, clock) ELSE sent
                /\ lastRequestTime' = clock
                /\ requestCount' = requestCount + 1
    /\ UNCHANGED <<clock, config, server>>

\* The timer of waitForSlot fires: lastRequestTime = Date.now(), and on.
SlotTimer(p) ==
    /\ fetchers[p].pc = "waitForSlot"
    /\ clock >= fetchers[p].timer
    /\ fetchers' = [fetchers EXCEPT ![p] = AfterSlot(fetchers[p])]
    /\ sent' = IF SendsAfterSlot(fetchers[p]) THEN Append(sent, clock) ELSE sent
    /\ lastRequestTime' = clock
    /\ requestCount' = requestCount + 1
    /\ UNCHANGED <<clock, config, server>>

\* The timer of the request delay or of the backoff fires: the loop goes on.
DelayTimer(p) ==
    /\ fetchers[p].pc \in {"delay", "backoff"}
    /\ clock >= fetchers[p].timer
    /\ LET f == IF fetchers[p].pc = "backoff"
                THEN [fetchers[p] EXCEPT !.i = fetchers[p].i + 1]
                ELSE fetchers[p]
       IN  /\ fetchers' = [fetchers EXCEPT ![p] = LoopHead(f)]
           /\ sent' = IF Sends(f) THEN Append(sent, clock) ELSE sent
    /\ UNCHANGED <<clock, lastRequestTime, requestCount, config, server>>

\* The remote source answers, or the request fails or is aborted.
Respond(p, ok, jitter) ==
    /\ fetchers[p].pc = "fetching"
    /\ fetchers' = [fetchers EXCEPT ![p] =
           IF ok THEN [fetchers[p] EXCEPT !.pc = "done", !.outcome = "response"]
           ELSE Failed(fetchers[p], jitter,
                       IF fetchers[p].client = "PokeApiClient"
                       THEN backoffMs(fetchers[p].i) ELSE legacyBackoffMs(fetchers[p].i))]
    /\ UNCHANGED <<clock, lastRequestTime, requestCount, config, sent, server>>

\* PokemonDataIngestion.fetchWithRetry(url, retries = 3): no limiter.
LegacyFetchWithRetry(p, url, retries) ==
    /\ fetchers[p].pc \in {"idle", "done"}
    /\ Len(sent) < MaxSent
    /\ LET maxRetries == IF retries = UndefinedInt THEN DefaultRetries ELSE retries
           f == [NoFetch EXCEPT !.client = "PokemonDataIngestion", !.url = url,
                                !.maxRetries = maxRetries]
       IN  IF url = ""
           THEN /\ fetchers' = [fetchers EXCEPT ![p] =
                                    [f EXCEPT !.pc = "done", !.outcome = "error"]]
                /\ UNCHANGED sent
           ELSE /\ fetchers' = [fetchers EXCEPT ![p] = LoopHead(f)]
                /\ sent' = IF Sends(f) THEN Append(sent, clock) ELSE sent
    /\ UNCHANGED <<clock, lastRequestTime, requestCount, config, server>>

\* The state after construction, before any call.
Idle ==
    /\ statements = Constructed
    /\ call = NoCall
    /\ rows = <<>>
    /\ result = NoResult
    /\ compiled = <<>>
    /\ clock = StartTime
    /\ lastRequestTime = 0
    /\ requestCount = 0
    /\ config = DefaultConfig
    /\ fetchers = [p \in Callers |-> NoFetch]
    /\ sent = <<>>

Init ==
    /\ db \in Stores
    /\ Idle

Next ==
    \/ \E identifier \in Identifiers : GetPokemon(identifier)
    \/ \E identifier \in Identifiers : GetPokemonComplete(identifier)
    \/ \E order \in Orders(Len(rows)) : ExtractRows(order)
    \/ \E order \in Orders(Len(rows)) : GetPokemonToolExtract(order)
    \/ \E identifier \in Identifiers : GetPokemonToolExecute(identifier)
    \/ \E filter \in SearchFilters : SearchPokemon(filter)
    \/ \E filter \in CountFilters : CountSearchResults(filter)
    \/ \E criteria \in StrongestCriteria : GetStrongestPokemon(criteria)
    \/ \E args \in StrongestCriteria : StrongestPokemonToolExecute(args)
    \/ \E module \in Modules, key \in Keys : GetStatement(module, key)
    \/ \E pokemonId \in LookupIds : GetStatsByPokemonId(pokemonId)
    \/ \E pokemonId \in LookupIds : GetTypesByPokemonId(pokemonId)
    \/ \E pokemonId \in LookupIds : GetAbilitiesByPokemonId(pokemonId)
    \/ \E typeName \in TypeArgs : TypeExistsCall(typeName)
    \/ \E abilityName \in AbilityArgs : AbilityExistsCall(abilityName)
    \/ \E typeName \in TypeArgs, limit \in Limits : GetPokemonByType(typeName, limit)
    \/ \E abilityName \in AbilityArgs, limit \in Limits :
           GetPokemonByAbility(abilityName, limit)
    \/ \E filter \in GenerationLimitFilters : ValidateSearchFilter(filter)
    \/ \E identifier1 \in ShortIdentifiers, identifier2 \in ShortIdentifiers :
           ComparePokemonToolExecute(identifier1, identifier2)
    \/ Return

Spec == Init /\ [][Next]_vars

\* Reconstruction from the join: the stores vary the relations of one entity.
InitReconstruction ==
    /\ db \in ReconstructionStores
    /\ Idle

NextReconstruction ==
    \/ \E identifier \in Identifiers : GetPokemonComplete(identifier)
    \/ \E order \in Orders(Len(rows)) : ExtractRows(order)
    \/ \E order \in Orders(Len(rows)) : GetPokemonToolExtract(order)
    \/ \E pokemonId \in LookupIds : GetTypesByPokemonId(pokemonId)
    \/ \E pokemonId \in LookupIds : GetAbilitiesByPokemonId(pokemonId)
    \/ Return

SpecReconstruction == InitReconstruction /\ [][NextReconstruction]_vars

\* Lookup by identifier: the stores vary who is called what.
InitLookup ==
    /\ db \in IdentityStores
    /\ Idle

NextLookup ==
    \/ \E identifier \in Identifiers : GetPokemon(identifier)
    \/ \E identifier \in Identifiers : GetPokemonComplete(identifier)
    \/ \E identifier \in Identifiers : GetPokemonToolExecute(identifier)
    \/ Return

SpecLookup == InitLookup /\ [][NextLookup]_vars

\* Search: the stores vary generation, tags and attribute totals.
InitSearch ==
    /\ db \in PagedStores
    /\ Idle

NextSearch ==
    \/ \E filter \in SearchFilters : SearchPokemon(filter)
    \/ \E filter \in CountFilters : CountSearchResults(filter)
    \/ Return

SpecSearch == InitSearch /\ [][NextSearch]_vars

\* The search alone, on stores whose tag names are any text.
InitSearchTags ==
    /\ db \in SearchStores \cup PunctuatedStores \cup {LargeStore}
    /\ Idle

NextSearchTags ==
    \/ \E filter \in SearchFilters : SearchPokemon(filter)
    \/ Return

SpecSearchTags == InitSearchTags /\ [][NextSearchTags]_vars

\* Ranking: the same stores, under the two entry points of the ranking.
InitRanking ==
    /\ db \in PagedStores
    /\ Idle

NextRanking ==
    \/ \E criteria \in StrongestCriteria : GetStrongestPokemon(criteria)
    \/ \E args \in StrongestCriteria : StrongestPokemonToolExecute(args)
    \/ Return

SpecRanking == InitRanking /\ [][NextRanking]_vars

\* The three totals: reconstruction, ranking by the aggregate total and the
\* threshold of the search, on stores that vary the attribute names and on
\* the stores the ingestion leaves.
InitTotals ==
    /\ db \in TotalsStores
    /\ Idle

NextTotals ==
    \/ \E identifier \in ShortIdentifiers : GetPokemonComplete(identifier)
    \/ \E order \in Orders(Len(rows)) : ExtractRows(order)
    \/ \E criteria \in TotalsCriteria : GetStrongestPokemon(criteria)
    \/ \E filter \in TotalsFilters : SearchPokemon(filter)
    \/ Return

SpecTotals == InitTotals /\ [][NextTotals]_vars

\* Ranking on the stores of the search, on the store whose entity has two
\* tags equal but for case and on the stores the ingestion leaves.
InitRankingFilters ==
    /\ db \in SearchStores \cup {CaseTwinStore, IngestedOnce, IngestedTwice}
    /\ Idle

SpecRankingFilters == InitRankingFilters /\ [][NextRanking]_vars

\* The public operations of the five query modules and getStatement, on
\* stores that vary names and on the worked example.
InitModules ==
    /\ db \in IdentityStores \cup {ExampleStore}
    /\ Idle

NextModules ==
    \/ \E module \in Modules, key \in Keys : GetStatement(module, key)
    \/ \E identifier \in Identifiers : GetPokemon(identifier)
    \/ \E identifier \in Identifiers : GetPokemonComplete(identifier)
    \/ \E pokemonId \in LookupIds : GetStatsByPokemonId(pokemonId)
    \/ \E pokemonId \in LookupIds : GetTypesByPokemonId(pokemonId)
    \/ \E pokemonId \in LookupIds : GetAbilitiesByPokemonId(pokemonId)
    \/ \E typeName \in TypeArgs : TypeExistsCall(typeName)
    \/ \E abilityName \in AbilityArgs : AbilityExistsCall(abilityName)
    \/ \E typeName \in TypeArgs, limit \in Limits : GetPokemonByType(typeName, limit)
    \/ \E abilityName \in AbilityArgs, limit \in Limits :
           GetPokemonByAbility(abilityName, limit)
    \/ \E filter \in SearchFilters : SearchPokemon(filter)
    \/ \E filter \in CountFilters : CountSearchResults(filter)
    \/ \E criteria \in StrongestCriteria : GetStrongestPokemon(criteria)
    \/ Return

SpecModules == InitModules /\ [][NextModules]_vars

\* Validation of filters, which reads no store.
InitValidate ==
    /\ db = ExampleStore
    /\ Idle

NextValidate ==
    \/ \E filter \in ValidatedFilters : ValidateSearchFilter(filter)
    \/ Return

SpecValidate == InitValidate /\ [][NextValidate]_vars

\* Comparison on stores that vary names and ids.
InitCompare ==
    /\ db \in IdentityStores
    /\ Idle

NextCompare ==
    \/ \E pair \in ComparePairs : ComparePokemonToolExecute(pair[1], pair[2])
    \/ Return

SpecCompare == InitCompare /\ [][NextCompare]_vars

\* The ingestion program on the store that setupDatabase leaves.
InitIngestion ==
    /\ db = EmptyStore
    /\ Idle

NextIngestion ==
    \/ \E batch \in Batches : IngestPokemonBatch(batch)
    \/ Return

\* The client of the remote source: the parallel fetches of one batch
\* through one PokeApiClient and its RateLimiter.
InitClient ==
    /\ db = EmptyStore
    /\ statements = Constructed
    /\ call = NoCall
    /\ rows = <<>>
    /\ result = NoResult
    /\ compiled = <<>>
    /\ clock = StartTime
    /\ lastRequestTime = 0
    /\ requestCount = 0
    /\ config \in Configs
    /\ fetchers = [p \in Callers |-> NoFetch]
    /\ sent = <<>>

NextRateLimiter ==
    \/ Advance
    \/ \E p \in Callers, url \in Urls, retries \in RetryCounts : FetchWithRetry(p, url, retries)
    \/ \E p \in Callers : SlotTimer(p)
    \/ \E p \in Callers : DelayTimer(p)
    \/ \E p \in Callers, ok \in BOOLEAN, jitter \in Jitters : Respond(p, ok, jitter)

SpecRateLimiter == InitClient /\ [][NextRateLimiter]_vars

\* One call of fetchWithRetry at a time, of either client.
NextFetch ==
    \/ Advance
    \/ \E url \in Urls, retries \in RetryCounts : FetchWithRetry(1, url, retries)
    \/ \E url \in Urls, retries \in RetryCounts : LegacyFetchWithRetry(1, url, retries)
    \/ SlotTimer(1)
    \/ DelayTimer(1)
    \/ \E ok \in BOOLEAN, jitter \in Jitters : Respond(1, ok, jitter)

SpecFetch == InitClient /\ [][NextFetch]_vars

SpecIngestion == InitIngestion /\ [][NextIngestion]_vars

(***************************************************************************)
(* Properties.                                                             *)
(***************************************************************************)
AsSet(seq) == {seq[i] : i \in 1..Len(seq)}

Max(a, b) == IF a >= b THEN a ELSE b

\* The six canonical attribute names in their fixed order.
CanonicalOrder ==
    <<"hp", "attack", "defense", "special-attack", "special-defense", "speed">>

CanonicalSix == AsSet(CanonicalOrder)

RowsOfEntity(id) == SelectSeq(rows, LAMBDA r : r.id = id)

\* The premise of C1: distinct canonical attribute names, distinct tag slots
\* and distinct trait slots within the entity.
DistinctKeys(d, id) ==
    /\ \A s \in StatsOf(d, id) : s.stat_name \in CanonicalSix
    /\ Cardinality({s.stat_name : s \in StatsOf(d, id)}) = Cardinality(StatsOf(d, id))
    /\ Cardinality({t.slot : t \in TagsOf(d, id)}) = Cardinality(TagsOf(d, id))
    /\ Cardinality({a.slot : a \in TraitsOf(d, id)}) = Cardinality(TraitsOf(d, id))

StoredTraits(d, id) ==
    {[name |-> a.name, is_hidden |-> (a.is_hidden = 1), slot |-> a.slot] : a \in TraitsOf(d, id)}

\* Every stored relation instance exactly once, none missing.
ExactlyStored(d, id, rs) ==
    /\ Len(extractStats(rs)) = Cardinality(StatsOf(d, id))
    /\ AsSet(extractStats(rs)) = StatsOf(d, id)
    /\ Len(extractTypes(rs)) = Cardinality(TagsOf(d, id))
    /\ AsSet(extractTypes(rs)) = TagsOf(d, id)
    /\ Len(extractAbilities(rs)) = Cardinality(TraitsOf(d, id))
    /\ AsSet(extractAbilities(rs)) = StoredTraits(d, id)

StatNames(stats) == [i \in 1..Len(stats) |-> stats[i].stat_name]

C3_CanonicalOrder ==
    call.op = "extract" =>
        /\ StatNames(result.stats) =
               SelectSeq(CanonicalOrder,
                         LAMBDA n : \E i \in 1..Len(rows) : rows[i].stat_name = n)
        /\ StatNames(result.stats) =
               StatNames(extractStats(getPokemonComplete(db, call.identifier)))

\* All six names and one outside them, arriving with speed first.
C3_Witness ==
    /\ call.op = "extract"
    /\ Len(rows) = 7
    /\ rows[1].stat_name = "speed"
    /\ \E i \in 1..Len(rows) : rows[i].stat_name = "accuracy"
    /\ StatNames(result.stats) = CanonicalOrder

\* C2: in the text and the parameter list built for a search, there are as
\* many placeholders as parameters and the k-th placeholder in text order
\* is bound to the value of its own clause: the tag name to the EXISTS
\* predicate, the generation to the equality, minStat to the HAVING
\* threshold, the limit to LIMIT.
ClauseValue(filter, fragment) ==
    CASE fragment = ExistsType -> Text(filter.type)
      [] fragment = GenerationEq -> Integer(filter.generation)
      [] fragment = JoinStatTotals -> Integer(filter.minStat)
      [] fragment = GroupOrderLimit ->
             Integer(IF filter.limit = UndefinedInt THEN 20 ELSE filter.limit)

C2_PlaceholdersAligned ==
    call.op = "searchPokemon" =>
        /\ Len(Placeholders(result.query)) = Len(result.params)
        /\ \A k \in 1..Len(result.params) :
               result.params[k] = ClauseValue(call.filter, Placeholders(result.query)[k])

\* The filters of a search that the builder takes as present.
HasTag(filter) == TruthyText(filter.type)
HasGeneration(filter) == TruthyInt(filter.generation)
HasMinStat(filter) == TruthyInt(filter.minStat)

ResultIds == [i \in 1..Len(result.rows) |-> result.rows[i].id]

FirstN(seq, n) == IF n >= Len(seq) THEN seq ELSE SubSeq(seq, 1, n)

\* C4: a search without filters returns every entity of the store, up to
\* the default limit of 20, in ascending id order, whatever relations the
\* entity has.
C4_EmptyFilterIsAll ==
    (/\ call.op = "searchPokemon"
     /\ call.filter.type = UndefinedText
     /\ call.filter.generation = UndefinedInt
     /\ call.filter.minStat = UndefinedInt
     /\ call.filter.limit = UndefinedInt) =>
        ResultIds = FirstN(AscendingIds({p.id : p \in db.pokemon}), 20)

\* C5: a search with minStat = m alone, the limit large enough, returns an
\* entity if and only if its attribute base values sum to at least m.
C5_MinTotalThreshold ==
    (/\ call.op = "searchPokemon"
     /\ call.filter.type = UndefinedText
     /\ call.filter.generation = UndefinedInt
     /\ call.filter.minStat # UndefinedInt
     /\ call.filter.limit = UndefinedInt) =>
        \A p \in db.pokemon :
            p.id \in AsSet(ResultIds) <=>
                SumBaseStat({s \in db.stats : s.pokemon_id = p.id}) >= call.filter.minStat

\* C6: a search with a non-empty tag filter returns only entities that have
\* a tag of that name ignoring case and, when the tag is the only filter,
\* all of them up to the limit in ascending id order; a name no entity has
\* gives an empty list and no error.
TaggedIds(d, name) ==
    {p.id : p \in {q \in d.pokemon :
                      \E t \in d.pokemon_types :
                          t.pokemon_id = q.id /\ LOWER(t.name) = LOWER(name)}}

C7_CompleteSameEntity ==
    call.op = "getPokemonComplete" =>
        LET found == getPokemon(db, call.identifier)
        IN  IF found.kind = "undefined" THEN rows = <<>>
            ELSE \A i \in 1..Len(rows) : rows[i].id = found.row.id

\* C8 as stated: getPokemon with the decimal string of the id, with the
\* name and with the name in any other letter case returns that entity.
C8_IdentifierEquivalenceAll ==
    call.op = "getPokemon" =>
        \A p \in db.pokemon :
            (\/ call.identifier = DecimalString(p.id)
             \/ LOWER(call.identifier) = LOWER(p.name)) =>
                result = RowResult(p)

\* C8 amended: getPokemon with the decimal string of the id returns that
\* entity; with the name, in any letter case, it returns that entity when
\* the name is not made of decimal digits only and no other entity has the
\* same name ignoring case.
C8_IdentifierEquivalence ==
    call.op = "getPokemon" =>
        \A p \in db.pokemon :
            /\ call.identifier = DecimalString(p.id) => result = RowResult(p)
            /\ (/\ LOWER(call.identifier) = LOWER(p.name)
                /\ ~isNumericId(p.name)
                /\ \A q \in db.pokemon : LOWER(q.name) = LOWER(p.name) => q = p) =>
                   result = RowResult(p)

\* The entity named a, found under A.
C8_Witness ==
    /\ call.op = "getPokemon"
    /\ call.identifier = <<"A">>
    /\ \E p \in db.pokemon : p.name = <<"a">> /\ result = RowResult(p)
    /\ Cardinality(db.pokemon) = 2

\* C9: an identifier matching no entity gives an absent result from
\* getPokemon, and the reconstruction of the empty row set gives the
\* not-found result without raising an error.
MatchesSome(d, identifier) ==
    \E p \in d.pokemon :
        identifier = DecimalString(p.id) \/ LOWER(identifier) = LOWER(p.name)

C9_NotFoundIsAValue ==
    /\ (call.op = "getPokemon" /\ ~MatchesSome(db, call.identifier)) => result = Undefined
    /\ (call.op = "extract" /\ rows = <<>>) => result.pokemon.kind # "error"

\* C10: a metric outside the seven fails with 'Invalid criteria', and no
\* query is built, through the tool and through StatsQueries alike.
ValidCriteria ==
    {<<"total", "_", "stats">>, <<"attack">>, <<"defense">>, <<"hp">>, <<"speed">>,
     <<"sp", "_", "attack">>, <<"sp", "_", "defense">>}

C10_InvalidCriteria ==
    (/\ call.op \in {"getStrongestPokemon", "StrongestPokemonTool.execute"}
     /\ call.criteria.criteria \notin ValidCriteria) =>
        /\ result.kind = "error"
        /\ result.message = "Invalid criteria"

\* C11: a ranking by the aggregate total with limit n returns at most n
\* rows (10 when no limit is given), each row's value is the sum of that
\* entity's attribute base values, and the values do not increase along
\* the rows.
RankingCall == call.op \in {"getStrongestPokemon", "StrongestPokemonTool.execute"}

SpecialCriteria == {<<"sp", "_", "attack">>, <<"sp", "_", "defense">>}

C13_CountMatchesSearch ==
    call.op = "countSearchResults" =>
        LET all == searchPokemon(db, [call.filter EXCEPT
                                         !.limit = Cardinality(db.pokemon) + 1]).rows
        IN  /\ result.kind = "count"
            /\ result.count = Cardinality({all[i].id : i \in 1..Len(all)})

\* Entity 1 has two tags, one of them the filter's: it is counted once.
C13_Witness ==
    /\ call.op = "countSearchResults"
    /\ call.filter.type = <<"G">>
    /\ call.filter.generation = UndefinedInt
    /\ call.filter.minStat = UndefinedInt
    /\ TagsOf(db, 1) = {Tag(<<"g">>, 1), Tag(<<"f">>, 2)}
    /\ Cardinality(db.pokemon) = 2
    /\ result.count = 1

\* C14: every statement compilation happens during construction: after
\* construction no call to an operation of a query module or of
\* GetPokemonTool passes a text to db.prepare.
C14_NoCompilationOnHotPath == compiled = <<>>

\* The keys each module's prepareStatements names.
PreparedKeys ==
    [module \in Modules |->
        CASE module = "PokemonQueries" -> {"pokemonById", "pokemonByName", "pokemonComplete"}
          [] module = "StatsQueries" -> {"statsByPokemonId", "strongestBase"}
          [] module = "TypesQueries" -> {"typeExists", "typesByPokemonId", "pokemonByType"}
          [] module = "AbilitiesQueries" ->
                 {"abilitiesByPokemonId", "pokemonByAbility", "abilityExists"}
          [] module = "SearchQueries" -> {"searchBase"}]

\* C15: getStatement(key) returns the statement stored by prepare(key) and
\* gives the statement-not-found error exactly when the key was never
\* prepared; after construction every key a public operation of a module
\* requests is in that module's cache, so no operation returns that error.
C15_StatementCache ==
    /\ call.op = "getStatement" =>
           IF call.key \in PreparedKeys[call.module]
           THEN result = [kind |-> "statement", sql |-> statements[call.module][call.key]]
           ELSE result = StatementNotFound(call.key)
    /\ \A module \in Modules : DOMAIN statements[module] = PreparedKeys[module]
    /\ call # NoCall /\ call.op # "getStatement" =>
           ~(result.kind = "error" /\ result.message = "Statement not found")

\* getTypesByPokemonId finds the statement prepared under typesByPokemonId
\* and returns the two tags of the worked example.
C15_Witness ==
    /\ call.op = "getTypesByPokemonId"
    /\ "typesByPokemonId" \in DOMAIN statements["TypesQueries"]
    /\ db = ExampleStore
    /\ call.args = 1
    /\ result = [kind |-> "names", names |-> <<<<"g">>, <<"f">>>>]

\* The entity all rows of the call in hand belong to.
Reconstructed(p) ==
    /\ call.op \in {"extract", "toolExtract"}
    /\ Len(rows) > 0
    /\ \A i \in 1..Len(rows) : rows[i].id = p.id

ScalarFields(p) == [id |-> p.id, name |-> p.name, generation |-> p.generation]

NamesIn(seq) == {seq[i].name : i \in 1..Len(seq)}

\* No error, the scalar fields, nothing for an absent relation and every
\* stored instance of a present one.
ToleratesNulls(p) ==
    /\ result.pokemon =
           IF call.op = "extract" THEN [kind |-> "row", row |-> ScalarFields(p)]
           ELSE ScalarFields(p)
    /\ StatsOf(db, p.id) = {} => result.stats = <<>>
    /\ TagsOf(db, p.id) = {} => result.types = <<>>
    /\ TraitsOf(db, p.id) = {} => result.abilities = <<>>
    /\ AsSet(result.stats) = StatsOf(db, p.id)
    /\ Len(result.stats) = Cardinality(StatsOf(db, p.id))
    /\ NamesIn(result.types) = {t.name : t \in TagsOf(db, p.id)}
    /\ Len(result.types) = Cardinality(TagsOf(db, p.id))
    /\ NamesIn(result.abilities) = {a.name : a \in TraitsOf(db, p.id)}
    /\ Len(result.abilities) = Cardinality(TraitsOf(db, p.id))

LacksARelation(p) ==
    StatsOf(db, p.id) = {} \/ TagsOf(db, p.id) = {} \/ TraitsOf(db, p.id) = {}

TagRows == {i \in 1..Len(rows) : TruthyText(rows[i].type_name)}
TraitRows == {i \in 1..Len(rows) : TruthyText(rows[i].ability_name)}
TagSlots == {rows[i].type_slot : i \in TagRows}
TraitSlots == {rows[i].ability_slot : i \in TraitRows}

\* The first row in input order that carries slot k.
FirstTagRow(k) ==
    rows[CHOOSE i \in TagRows :
            /\ rows[i].type_slot = k
            /\ \A j \in TagRows : rows[j].type_slot = k => i <= j]

FirstTraitRow(k) ==
    rows[CHOOSE i \in TraitRows :
            /\ rows[i].ability_slot = k
            /\ \A j \in TraitRows : rows[j].ability_slot = k => i <= j]

\* The place of slot k in a list ascending by slot.
SlotRank(S, k) == Cardinality({j \in S : j <= k})

FirstTagsKept ==
    /\ Len(result.types) = Cardinality(TagSlots)
    /\ \A k \in TagSlots :
           result.types[SlotRank(TagSlots, k)].name = FirstTagRow(k).type_name

FirstTraitsKept ==
    /\ Len(result.abilities) = Cardinality(TraitSlots)
    /\ \A k \in TraitSlots :
           LET kept == result.abilities[SlotRank(TraitSlots, k)]
           IN  /\ kept.name = FirstTraitRow(k).ability_name
               /\ kept.is_hidden =
                      IF call.op = "extract" THEN FirstTraitRow(k).is_hidden = 1
                      ELSE FirstTraitRow(k).is_hidden

\* C17: when several rows carry the same tag slot or the same trait slot,
\* the reconstruction keeps the name and the hidden flag of the first such
\* row in input order, in PokemonDataExtractor.extractTypes and
\* extractAbilities and in GetPokemonTool's own extractTypes and
\* extractAbilities.
C17_FirstOccurrenceWins ==
    call.op \in {"extract", "toolExtract"} => FirstTagsKept /\ FirstTraitsKept

\* The slot an entity's tag or trait of a given name holds in the store.
SlotOfTag(id, name) == (CHOOSE t \in TagsOf(db, id) : t.name = name).slot
SlotOfTrait(id, name) == (CHOOSE a \in TraitsOf(db, id) : a.name = name).slot

\* A list of entries with a slot field ascends, slot 1 first when present.
AscendingSlots(seq) ==
    /\ \A i, j \in 1..Len(seq) : i < j => seq[i].slot <= seq[j].slot
    /\ (\E i \in 1..Len(seq) : seq[i].slot = 1) => seq[1].slot = 1

\* C18: the tag list and the trait list rebuilt from the rows of
\* getPokemonComplete in any arrival order, and those returned by
\* getTypesByPokemonId and getAbilitiesByPokemonId, are in ascending slot
\* order, slot 1 first.
C18_SlotOrder ==
    /\ call.op = "extract" =>
           AscendingSlots(result.types) /\ AscendingSlots(result.abilities)
    /\ call.op = "getTypesByPokemonId" =>
           /\ Len(result.names) = Cardinality(TagsOf(db, call.args))
           /\ AscendingSlots([i \in 1..Len(result.names) |->
                                 [slot |-> SlotOfTag(call.args, result.names[i])]])
    /\ call.op = "getAbilitiesByPokemonId" =>
           /\ Len(result.abilities) = Cardinality(TraitsOf(db, call.args))
           /\ AscendingSlots([i \in 1..Len(result.abilities) |->
                                 [slot |-> SlotOfTrait(call.args, result.abilities[i].name)]])

\* The tags g in slot 2 and f in slot 1 come back as f, g.
C18_Witness ==
    /\ call.op = "getTypesByPokemonId"
    /\ TagsOf(db, call.args) = {Tag(<<"g">>, 2), Tag(<<"f">>, 1)}
    /\ result.names = <<<<"f">>, <<"g">>>>

Supplied(v) == v.kind # "undefined"

IntegerIn(v, lo, hi) == v.kind = "number" /\ v.twice % 2 = 0 /\ 2 * lo <= v.twice /\ v.twice <= 2 * hi

Reports(message) == \E i \in 1..Len(result.errors) : result.errors[i] = message

\* C19: validateSearchFilter returns valid = true exactly when errors is
\* empty, and a supplied generation that is not an integer in 1..9, a
\* supplied minStat that is not an integer in 0..1000 or a supplied limit
\* that is not an integer in 1..100 gives valid = false with the message of
\* that field.
C19_ValidationRanges ==
    call.op = "validateSearchFilter" =>
        /\ result.kind = "validation"
        /\ result.valid <=> result.errors = <<>>
        /\ (Supplied(call.filter.generation) /\ ~IntegerIn(call.filter.generation, 1, 9)) =>
               ~result.valid /\ Reports(GenerationMessage)
        /\ (Supplied(call.filter.minStat) /\ ~IntegerIn(call.filter.minStat, 0, 1000)) =>
               ~result.valid /\ Reports(MinStatMessage)
        /\ (Supplied(call.filter.limit) /\ ~IntegerIn(call.filter.limit, 1, 100)) =>
               ~result.valid /\ Reports(LimitMessage)

\* An identifier resolves as in getPokemon: all digits, to the entity with
\* that id; otherwise to an entity with that name in any letter case.
Resolves(d, identifier) ==
    IF isNumericId(identifier)
    THEN \E p \in d.pokemon : p.id = parseInt(identifier)
    ELSE \E p \in d.pokemon : LOWER(p.name) = LOWER(identifier)

KeyedStore(d) ==
    /\ \A p, q \in d.pokemon : p.id = q.id => p = q
    /\ \A s, t \in d.stats :
           (s.pokemon_id = t.pokemon_id /\ s.stat_name = t.stat_name) => s = t

\* Two stores hold the same rows, whatever the rowids of stats.
StatColumns(d) ==
    {[pokemon_id |-> s.pokemon_id, stat_name |-> s.stat_name,
      base_stat |-> s.base_stat, effort |-> s.effort] : s \in d.stats}

SameRows(d, e) ==
    /\ d.pokemon = e.pokemon
    /\ d.pokemon_types = e.pokemon_types
    /\ d.pokemon_abilities = e.pokemon_abilities
    /\ StatColumns(d) = StatColumns(e)
    /\ Cardinality(d.stats) = Cardinality(e.stats)

\* C21: ingestion is an upsert: after any sequence of batches the store
\* holds one row per entity id and at most one attribute row per entity id
\* and attribute name, and ingesting the batch just ingested once more
\* leaves the store as it is.
C21_IngestionIsUpsert ==
    /\ KeyedStore(db)
    /\ call.op = "ingestPokemonBatch" => SameRows(ingestPokemonBatch(db, call.batch), db)

\* The value of the clause a placeholder of the ranking text stands in,
\* and the place of the clause in the text.
RankClauseValue(criteria, fragment) ==
    CASE fragment = StatNameEq -> Text(ReplaceFirst(criteria.criteria, "_", "-"))
      [] fragment = TypeNameEq -> Text(criteria.type)
      [] fragment = GenerationEq -> Integer(criteria.generation)
      [] fragment = OrderDescLimit ->
             Integer(IF criteria.limit = UndefinedInt THEN 10 ELSE criteria.limit)

ClauseRank(fragment) ==
    CASE fragment = StatNameEq -> 1
      [] fragment = TypeNameEq -> 2
      [] fragment = GenerationEq -> 3
      [] fragment = OrderDescLimit -> 4

\* C22: in the text and the parameter list built for a ranking, whatever the
\* metric and whichever of the tag and generation filters are present,
\* there are as many placeholders as parameters and the k-th placeholder in
\* text order is bound to the value of its own clause: the attribute name
\* (per-attribute metrics only), then the tag name, then the generation,
\* then the limit.
C22_RankingPlaceholdersAligned ==
    (RankingCall /\ result.kind = "strongest") =>
        LET holes == StrongestPlaceholders(result.query)
        IN  /\ Len(holes) = Len(result.params)
            /\ \A k \in 1..Len(holes) :
                   result.params[k] = RankClauseValue(call.criteria, holes[k])
            /\ \A k \in 1..(Len(holes) - 1) : ClauseRank(holes[k]) < ClauseRank(holes[k + 1])
            /\ (StatNameEq \in AsSet(holes)) = (call.criteria.criteria # TotalStats)
            /\ (TypeNameEq \in AsSet(holes)) = (call.criteria.type # UndefinedText)
            /\ (GenerationEq \in AsSet(holes)) = (call.criteria.generation # UndefinedInt)

\* A per-attribute ranking with both filters: four placeholders, the tag
\* second and the generation third.
C22_Witness ==
    /\ call.op = "getStrongestPokemon"
    /\ call.criteria.criteria = <<"attack">>
    /\ call.criteria.type = <<"G">>
    /\ call.criteria.generation = MaxGen
    /\ call.criteria.limit = 1
    /\ StrongestPlaceholders(result.query)
           = <<StatNameEq, TypeNameEq, GenerationEq, OrderDescLimit>>
    /\ result.params = <<Text(<<"attack">>), Text(<<"G">>), Integer(MaxGen), Integer(1)>>

\* C23: with a tag filter and/or a generation filter, every entity a ranking
\* returns has a tag of that name (ignoring case) and the given generation,
\* and under the aggregate total the value reported for an entity is the
\* sum of all its attribute base values, as without the tag filter: the
\* tag join does not inflate the sum.
C23_RankingFilters ==
    (RankingCall /\ result.kind = "strongest") =>
        \A i \in 1..Len(result.rows) :
            LET r == result.rows[i]
            IN  /\ call.criteria.type # UndefinedText =>
                       \E t \in TagsOf(db, r.id) : LOWER(t.name) = LOWER(call.criteria.type)
                /\ call.criteria.generation # UndefinedInt =>
                       /\ r.generation = call.criteria.generation
                       /\ \E p \in db.pokemon :
                              p.id = r.id /\ p.generation = call.criteria.generation
                /\ call.criteria.criteria = TotalStats =>
                       r.stat_value = SumBaseStat({s \in db.stats : s.pokemon_id = r.id})

\* The tag names of a row's comma-joined string, split and trimmed, are
\* the names of the entity's tags, one piece per tag.
ListsEveryTag(r) ==
    LET parsed == parseTypesString(r.types)
    IN  /\ AsSet(parsed) = {t.name : t \in TagsOf(db, r.id)}
        /\ Len(parsed) = Cardinality(TagsOf(db, r.id))

\* A name that survives the joining with commas and the trimming.
PlainName(name) ==
    /\ Len(name) > 0
    /\ \A i \in 1..Len(name) : name[i] # ","
    /\ name[1] # " " /\ name[Len(name)] # " "

\* C24 as stated: with a tag filter, each row of a search lists every tag
\* of its entity in the comma-joined string, not only the matching one,
\* and parseTypesString splits the string back into exactly the entity's
\* tag names.
C24_AllTagsListed ==
    (call.op = "searchPokemon" /\ HasTag(call.filter)) =>
        \A i \in 1..Len(result.rows) : ListsEveryTag(result.rows[i])

\* C24 amended: the same, for entities whose tag names are not empty, hold
\* no comma and neither begin nor end with white space.
C24_AllPlainTagsListed ==
    (call.op = "searchPokemon" /\ HasTag(call.filter)) =>
        \A i \in 1..Len(result.rows) :
            (\A t \in TagsOf(db, result.rows[i].id) : PlainName(t.name))
                => ListsEveryTag(result.rows[i])

\* A search for G returns the entity tagged g and f with both names.
C24_Witness ==
    /\ call.op = "searchPokemon"
    /\ call.filter.type = <<"G">>
    /\ Len(result.rows) > 0
    /\ result.rows[1].types = <<"g", ",", "f">>
    /\ {t.name : t \in TagsOf(db, result.rows[1].id)} = {<<"g">>, <<"f">>}
    /\ parseTypesString(result.rows[1].types) = <<<<"g">>, <<"f">>>>

\* C25: for every combination of filters a search returns at most limit
\* rows (20 when no limit is given), holds each entity id at most once even
\* when the entity has several tags, and its rows are in strictly
\* ascending order of id.
C25_SearchLimitAndOrder ==
    call.op = "searchPokemon" =>
        /\ Len(result.rows) <=
               (IF call.filter.limit = UndefinedInt THEN 20 ELSE call.filter.limit)
        /\ \A i, j \in 1..Len(result.rows) :
               i < j => result.rows[i].id < result.rows[j].id
        /\ \A i, j \in 1..Len(result.rows) :
               result.rows[i].id = result.rows[j].id => i = j

\* Two entities of the generation asked for, the first with two tags;
\* under a limit of 1 the search returns one row.
C25_Witness ==
    /\ call.op = "searchPokemon"
    /\ call.filter.limit = 1
    /\ call.filter.type = UndefinedText
    /\ call.filter.generation = MaxGen
    /\ call.filter.minStat = UndefinedInt
    /\ Cardinality(db.pokemon) = 2
    /\ Cardinality(TagsOf(db, 1)) = 2
    /\ \A p \in db.pokemon : p.generation = MaxGen
    /\ Len(result.rows) = 1
    /\ result.rows[1].id = 1

\* Two search filters, and two ranking criteria, that supply the same
\* fields and differ in the values only.
SameFiltersPresent(f, g) ==
    /\ (f.type = UndefinedText) = (g.type = UndefinedText)
    /\ (f.generation = UndefinedInt) = (g.generation = UndefinedInt)
    /\ (f.minStat = UndefinedInt) = (g.minStat = UndefinedInt)
    /\ (f.limit = UndefinedInt) = (g.limit = UndefinedInt)

SameCriteriaPresent(c, e) ==
    /\ (c.criteria = TotalStats) = (e.criteria = TotalStats)
    /\ (c.type = UndefinedText) = (e.type = UndefinedText)
    /\ (c.generation = UndefinedInt) = (e.generation = UndefinedInt)
    /\ (c.limit = UndefinedInt) = (e.limit = UndefinedInt)

\* The fixed pieces every text of the two builders is made of.
BuilderFragments ==
    AsSet(SelectStat(SumBaseStatColumn)) \cup AsSet(SelectStat(BaseStatColumn))
      \cup {JoinTypes, StatNameEq, TypeNameEq, GenerationEq, GroupByPokemon, OrderDescLimit,
            "WHERE", "AND", SelectSearch, ExistsType, JoinStatTotals, GroupOrderLimit}

\* C26: the text built by the search builder and by the ranking builder
\* depends only on which filters are present and on whether the metric is
\* the aggregate total: a call whose filters differ from the present one
\* in values only builds the same text, and the text is made of fixed
\* pieces, the values of the caller being bound parameters.
C26_TextDependsOnPresenceOnly ==
    /\ call.op = "searchPokemon" =>
           /\ \A g \in SearchFilters :
                  SameFiltersPresent(call.filter, g) => buildSearchQuery(g) = result.query
           /\ AsSet(result.query) \subseteq BuilderFragments
    /\ (RankingCall /\ result.kind = "strongest") =>
           /\ \A e \in StrongestCriteria :
                  SameCriteriaPresent(call.criteria, e)
                      => buildStrongestQuery(e) = result.query
           /\ AsSet(result.query) \subseteq BuilderFragments

\* The three totals of one entity.
RECURSIVE SumExtracted(_)
SumExtracted(stats) ==
    IF Len(stats) = 0 THEN 0 ELSE stats[1].base_stat + SumExtracted(Tail(stats))

RankedTotals(d) ==
    getStrongestPokemon(d, [criteria |-> TotalStats, type |-> UndefinedText,
                            generation |-> UndefinedInt, limit |-> UndefinedInt]).rows

PassesThreshold(d, id, m) ==
    LET found == searchPokemon(d, [type |-> UndefinedText, generation |-> UndefinedInt,
                                   minStat |-> m, limit |-> UndefinedInt]).rows
    IN  \E i \in 1..Len(found) : found[i].id = id

TotalsAgree(d, id, total) ==
    /\ \E i \in 1..Len(RankedTotals(d)) : RankedTotals(d)[i].id = id
    /\ \A i \in 1..Len(RankedTotals(d)) :
           RankedTotals(d)[i].id = id => RankedTotals(d)[i].stat_value = total
    /\ \A m \in 1..MaxThreshold : PassesThreshold(d, id, m) = (m <= total)

\* An entity was reconstructed from its rows; it has attributes and a tag,
\* so that the ranking and the search report it.
ReconstructedOne ==
    /\ call.op = "extract"
    /\ result.pokemon.kind = "row"
    /\ \A i \in 1..Len(rows) : rows[i].id = result.pokemon.row.id
    /\ StatRowsOf(db, result.pokemon.row.id) # {}
    /\ TagsOf(db, result.pokemon.row.id) # {}

\* C27: for every entity of any store the schema admits the three totals
\* agree: the sum of the base values of the attributes extractStats
\* returns from the rows of getPokemonComplete, the SUM(base_stat) the
\* ranking by the aggregate total reports, and the total the minStat
\* threshold of the search is compared with.
C27_ThreeTotalsAgree ==
    ReconstructedOne =>
        TotalsAgree(db, result.pokemon.row.id, SumExtracted(result.stats))

PerAttributeCriteria == {<<"attack">>, <<"defense">>, <<"hp">>, <<"speed">>}

\* C28: a ranking by a per-attribute metric (attack, defense, hp, speed),
\* with or without tag and generation filters, returns each entity at most
\* once, with the entity's base value of that attribute, the values not
\* increasing along the rows.
C28_PerAttributeRanking ==
    (RankingCall /\ result.kind = "strongest"
       /\ call.criteria.criteria \in PerAttributeCriteria) =>
        /\ \A i, j \in 1..Len(result.rows) :
               result.rows[i].id = result.rows[j].id => i = j
        /\ \A i \in 1..Len(result.rows) :
               \E s \in db.stats :
                   /\ s.pokemon_id = result.rows[i].id
                   /\ <<s.stat_name>> = call.criteria.criteria
                   /\ s.base_stat = result.rows[i].stat_value
        /\ \A i \in 1..(Len(result.rows) - 1) :
               result.rows[i].stat_value >= result.rows[i + 1].stat_value

\* C29: whatever the interleaving of the concurrent callers of
\* waitForSlot, and counting every request fetchWithRetry sends, retries
\* included, any two requests sent to the remote source are at least
\* minInterval (60000 / requestsPerMinute ms) apart.
C29_RequestsSpaced ==
    \A i, j \in 1..Len(sent) : i < j => sent[j] - sent[i] >= minInterval

\* C30: fetchWithRetry ends with a response or with an error: for every
\* retry count n it sends at most n requests, returns the first successful
\* response without sending more, raises an error after the n-th failure
\* in a row, and never completes with neither.
C30_ResponseOrError ==
    \A p \in Callers :
        LET f == fetchers[p]
        IN  /\ f.requests <= f.maxRetries \/ f.requests = 0
            /\ f.pc = "done" =>
                   /\ f.outcome \in {"response", "error"}
                   /\ f.outcome = "response" => f.requests = f.i + 1
                   /\ (f.outcome = "error" /\ f.url # "") => f.requests = f.maxRetries

====
